---------------------------- MODULE Spec2Model ----------------------------
(***************************************************************************)
(* FastCGI client (fastcgi-client-rs): the record codec of src/meta.rs and *)
(* the request / response state machine of src/client.rs, over a channel   *)
(* whose other end is a server that sends a script of records.             *)
(*                                                                         *)
(* Byte strings are kept run-length encoded (a sequence of runs            *)
(* [v |-> byte, n |-> count], adjacent runs of different bytes), so that   *)
(* the real chunk size MAX_LENGTH = 65535 and bodies longer than it can be *)
(* checked.                                                                *)
(***************************************************************************)
EXTENDS Integers, Sequences, FiniteSets, TLC

\* ------------------------------------------------------------------------
\* Bounds of the model (not program constants)
\* ------------------------------------------------------------------------

\* Short reads (fewer bytes than asked) a body reader may make per request.
MaxShortReads == 1

\* Stdout / Stderr records the server may send before its final record.
MaxData == 3

\* Calls of execute on one keep-alive client.
MaxCalls == 2

\* ------------------------------------------------------------------------
\* Program constants
\* ------------------------------------------------------------------------

VERSION_1 == 1

MAX_LENGTH == 65535

HEADER_LEN == 8

REQUEST_ID == 1

\* RequestType as u8 (meta.rs, enum RequestType)
BeginRequest == 1

AbortRequest == 2

EndRequest == 3

Params == 4

Stdin == 5

Stdout == 6

Stderr == 7

Data == 8

GetValues == 9

GetValuesResult == 10

UnknownType == 11

\* Role::Responder as u16
Responder == 1

\* ------------------------------------------------------------------------
\* Byte strings (Vec<u8>, &[u8]) in run-length form
\* ------------------------------------------------------------------------

Min(a, b) == IF a < b THEN a ELSE b

RECURSIVE BLen(_)
\* slice.len()
BLen(s) == IF s = <<>> THEN 0 ELSE s[1].n + BLen(Tail(s))

\* Vec::extend / consecutive write_all calls: s followed by t
BCat(s, t) ==
    IF s = <<>> THEN t
    ELSE IF t = <<>> THEN s
    ELSE IF s[Len(s)].v = t[1].v
         THEN SubSeq(s, 1, Len(s) - 1)
              \o <<[v |-> t[1].v, n |-> s[Len(s)].n + t[1].n]>>
              \o Tail(t)
         ELSE s \o t

RECURSIVE BTake(_, _)
\* &s[..k]
BTake(s, k) ==
    IF k = 0 \/ s = <<>> THEN <<>>
    ELSE IF s[1].n <= k THEN BCat(<<s[1]>>, BTake(Tail(s), k - s[1].n))
    ELSE <<[v |-> s[1].v, n |-> k]>>

RECURSIVE BDrop(_, _)
\* &s[k..]
BDrop(s, k) ==
    IF k = 0 \/ s = <<>> THEN s
    ELSE IF s[1].n <= k THEN BDrop(Tail(s), k - s[1].n)
    ELSE <<[v |-> s[1].v, n |-> s[1].n - k]>> \o Tail(s)

RECURSIVE BAt(_, _)
\* s[i], i counted from 0
BAt(s, i) == IF i < s[1].n THEN s[1].v ELSE BAt(Tail(s), i - s[1].n)

\* vec![b; n]
Rep(b, n) == IF n = 0 THEN <<>> ELSE <<[v |-> b, n |-> n]>>

RECURSIVE Lit(_)
\* the byte string of a plain sequence of bytes
Lit(q) == IF q = <<>> THEN <<>> ELSE BCat(Rep(q[1], 1), Lit(Tail(q)))

\* AsyncWriteExt::write_u16 on a Vec: big-endian
U16BE(x) == Lit(<<(x \div 256) % 256, x % 256>>)

\* AsyncWriteExt::write_u32 on a Vec: big-endian (values below 2^31)
U32BE(x) ==
    Lit(<<(x \div 16777216) % 256, (x \div 65536) % 256, (x \div 256) % 256, x % 256>>)

\* u16::from_be_bytes
be_buf_to_u16(b) == BAt(b, 0) * 256 + BAt(b, 1)

\* u32::from_be_bytes (values below 2^31)
be_buf_to_u32(b) ==
    BAt(b, 0) * 16777216 + BAt(b, 1) * 65536 + BAt(b, 2) * 256 + BAt(b, 3)

\* ------------------------------------------------------------------------
\* Record codec (meta.rs)
\* ------------------------------------------------------------------------

\* Faulty variant of RequestType::from_u8: the byte is taken as it is
RequestType_from_u8_raw(u) == u

\* RequestType::from_u8
RequestType_from_u8(u) == IF u \in 1..10 THEN u ELSE UnknownType

\* `content_length as i16`
AsI16(x) == IF x >= 32768 THEN x - 65536 ELSE x

\* Header::new overflows on `-(content_length as i16)` exactly when the cast
\* gives i16::MIN: a panic with overflow checks on, a wrap to i16::MIN without.
NegOverflows(len) == AsI16(Min(len, MAX_LENGTH)) = -32768

\* Faulty variant of the padding: content_length & 7
PaddingOf_mod(content_length) == content_length % 8

\* (-(content_length as i16) & 7) as u8, with the negation wrapping
PaddingOf(content_length) ==
    LET neg == IF AsI16(content_length) = -32768 THEN -32768
               ELSE 0 - AsI16(content_length)
    IN  neg % 8

\* Header::new, from the length of the content
Header_new(type, request_id, len) ==
    LET content_length == Min(len, MAX_LENGTH)
    IN  [version        |-> VERSION_1,
         type           |-> type,
         request_id     |-> request_id,
         content_length |-> content_length,
         padding_length |-> PaddingOf(content_length),
         reserved       |-> 0]

\* Faulty variant of write_to_stream: the two u16 fields written low byte
\* first
HeaderBytes_le(h) ==
    BCat(Lit(<<h.version, h.type>>),
         BCat(Lit(<<h.request_id % 256, h.request_id \div 256>>),
              BCat(Lit(<<h.content_length % 256, h.content_length \div 256>>),
                   Lit(<<h.padding_length, h.reserved>>))))

\* The 8 bytes Header::write_to_stream builds in `buf`
HeaderBytes(h) ==
    BCat(Lit(<<h.version, h.type>>),
         BCat(U16BE(h.request_id),
              BCat(U16BE(h.content_length), Lit(<<h.padding_length, h.reserved>>))))

\* Faulty variant of Header::new_from_buf: request_id is read from buf[3] alone
Header_new_from_buf_low_id(buf) ==
    [version        |-> BAt(buf, 0),
     type           |-> RequestType_from_u8(BAt(buf, 1)),
     request_id     |-> BAt(buf, 3),
     content_length |-> be_buf_to_u16(BDrop(buf, 4)),
     padding_length |-> BAt(buf, 6),
     reserved       |-> BAt(buf, 7)]

\* Faulty variant of Header::new_from_buf: padding_length is not taken from
\* buf[6]
Header_new_from_buf_no_padding(buf) ==
    [version        |-> BAt(buf, 0),
     type           |-> RequestType_from_u8(BAt(buf, 1)),
     request_id     |-> be_buf_to_u16(BDrop(buf, 2)),
     content_length |-> be_buf_to_u16(BDrop(buf, 4)),
     padding_length |-> 0,
     reserved       |-> BAt(buf, 7)]

\* Header::new_from_buf
Header_new_from_buf(buf) ==
    [version        |-> BAt(buf, 0),
     type           |-> RequestType_from_u8(BAt(buf, 1)),
     request_id     |-> be_buf_to_u16(BDrop(buf, 2)),
     content_length |-> be_buf_to_u16(BDrop(buf, 4)),
     padding_length |-> BAt(buf, 6),
     reserved       |-> BAt(buf, 7)]

\* Faulty variant of to_content: the role is written low byte first
BeginRequest_content_le(role, keep_alive) ==
    BCat(Lit(<<role % 256, role \div 256>>),
         BCat(Lit(<<IF keep_alive THEN 1 ELSE 0>>), Rep(0, 5)))

\* BeginRequest::new + to_content
BeginRequest_content(role, keep_alive) ==
    BCat(U16BE(role), BCat(Lit(<<IF keep_alive THEN 1 ELSE 0>>), Rep(0, 5)))

\* Mode::is_keep_alive
is_keep_alive(m) == m = "KeepAlive"

\* Faulty variant of ParamLength::new: `length <= 128` takes the short form
ParamLength_content_short_128(length) ==
    IF length <= 128 THEN Lit(<<length>>)
    ELSE Lit(<<((length \div 16777216) % 128) + 128, (length \div 65536) % 256,
               (length \div 256) % 256, length % 256>>)

\* ParamLength::new + ParamLength::content: one byte below 128, else the
\* length with bit 31 set (as u32), big-endian
\* (lengths below 2^31, the integers of the model checker: bit 31 is set by
\* adding 128 to the first of the four bytes)
ParamLength_content(length) ==
    IF length < 128 THEN Lit(<<length>>)
    ELSE Lit(<<((length \div 16777216) % 128) + 128, (length \div 65536) % 256,
               (length \div 256) % 256, length % 256>>)

\* Faulty variant of ParamPair::write_to_stream: each length is written in
\* front of its own bytes
ParamPair_bytes_lengths_apart(p) ==
    BCat(ParamLength_content(BLen(p.name)),
         BCat(p.name, BCat(ParamLength_content(BLen(p.value)), p.value)))

\* ParamPair::new + ParamPair::write_to_stream
ParamPair_bytes(p) ==
    BCat(ParamLength_content(BLen(p.name)),
         BCat(ParamLength_content(BLen(p.value)), BCat(p.name, p.value)))

RECURSIVE ParamPairs_to_content(_)
\* ParamPairs::new + to_content, over the pairs in the map's iteration order
ParamPairs_to_content(pairs) ==
    IF pairs = <<>> THEN <<>>
    ELSE BCat(ParamPair_bytes(pairs[1]), ParamPairs_to_content(Tail(pairs)))

\* ProtocolStatus as u8
RequestComplete == 0

CantMpxConn == 1

Overloaded == 2

UnknownRole == 3

\* Faulty variant of ProtocolStatus::from_u8: a byte it does not know decodes
\* to RequestComplete
ProtocolStatus_from_u8_lenient(u) == IF u \in 0..3 THEN u ELSE RequestComplete

\* ProtocolStatus::from_u8
ProtocolStatus_from_u8(u) == IF u \in 0..2 THEN u ELSE UnknownRole

\* Option<Vec<u8>>
None == [some |-> FALSE, v |-> <<>>]

Some(b) == [some |-> TRUE, v |-> b]

\* ClientResult values (error.rs, response.rs) and the two ways a call ends
\* without one: not returned yet, and a panic of the task
NoResult == [kind |-> "none"]

Panic == [kind |-> "panic"]

Ok(out, err) == [kind |-> "Ok", stdout |-> out, stderr |-> err]

\* ClientError::IoError; why: "write", "flush", "read", "eof"
IoError(why) == [kind |-> "IoError", why |-> why]

ResponseNotFound(id) == [kind |-> "ResponseNotFound", id |-> id]

UnknownRequestType(t) == [kind |-> "UnknownRequestType", request_type |-> t]

\* ClientError::new_end_request_with_protocol_status
new_end_request_with_protocol_status(protocol_status, app_status) ==
    [kind |-> "EndRequest", protocol_status |-> protocol_status,
     app_status |-> app_status]

\* ProtocolStatus::convert_to_client_result: TRUE for Ok(())
convert_to_client_result(protocol_status) == protocol_status = RequestComplete

\* EndRequestRec::new_from_buf indexes buf[0..4], buf[4..5], buf[5..8]: a
\* buffer shorter than 8 bytes panics (slice index out of range)
EndRequest_panics(buf) == BLen(buf) < 8

\* EndRequestRec::new_from_buf
EndRequestRec_new_from_buf(buf) ==
    [app_status      |-> be_buf_to_u32(buf),
     protocol_status |-> ProtocolStatus_from_u8(BAt(buf, 4))]

\* ------------------------------------------------------------------------
\* State
\* ------------------------------------------------------------------------

VARIABLES
    mode,         \* "ShortConn" | "KeepAlive": the Client's mode marker M
    pc,           \* where the current call is (its await point)
    todo,         \* requests the application will still issue
    calls,        \* calls started on this client
    req,          \* the Request of the current call: [params, body]
    src,          \* write_to_stream_batches: what `content` can still yield
    had_written,  \* write_to_stream_batches: had_written
    shorts,       \* short reads made by the body reader in this call
    produced,     \* bytes the body reader has returned in this call
    txlog,        \* records written to the channel by the current call
    flushed,      \* stream.flush() of the current call has completed
    srv,          \* "listening" | "responding": the server has chosen
                  \* what it sends
    script,       \* what the server will still send
    sent,         \* what the server has sent
    rx,           \* bytes in the channel, not yet read by the client
    rxClosed,     \* the server has closed the channel (EOF after rx)
    header,       \* handle_response: the header being dispatched
    stdout,       \* handle_response: stdout
    stderr,       \* handle_response: stderr
    rdlog,        \* records the current call has read: [h, content, whole]
    taken,        \* bytes the current call has taken from the channel
    result,       \* the value the last call returned
    past,         \* the calls before the current one, in short:
                  \* [ok, taken, nread, over, cut]
    \* A keep-alive client shared by concurrent calls
    gen_id,       \* RequestIdGenerator.id
    gen_ids,      \* RequestIdGenerator.ids
    cpc,          \* where each caller's call is
    cid,          \* the request id each call was allocated
    wlock,        \* the caller whose call holds the write side, or 0
    wire,         \* records written to the channel, by all calls
    reqs,         \* requests the server has received whole: [id, body]
    sprog,        \* records the server has sent of each response
    srx,          \* records in the channel, not yet read
    acc,          \* the accumulator of each request id
    cres,         \* what each call returned
    \* One record through the codec, written and read back
    cstep,        \* where the record is: "idle", "new", "built", "written",
                  \* "header", "read", "panicked"
    cin,          \* the record given: [type, request_id, content, next,
                  \* peer]; next is what follows it on the channel, peer
                  \* tells a record the peer wrote (type is then its byte)
    chdr,         \* the header Header::new built
    cchan,        \* bytes in the channel, not yet read
    cgot,         \* what was read: [h, content]
    \* RequestIdGenerator (id.rs) and the tasks that call alloc and release
    ipc,          \* where each task's alloc is: "idle", "wait_id" (awaiting
                  \* the lock of `id`), "loop" (holding it), "sleep"
    iret,         \* what each task's last alloc returned
    ilock,        \* the task that holds the lock of `id`, or 0
    held,         \* ids that alloc returned and release was not called
                  \* for, as a set of runs [lo, hi] of consecutive ids
    hist,         \* the ids alloc returned, in order, as runs [lo, hi] of
                  \* consecutive ids
    pairs,        \* every alloc so far was called with no id outstanding
                  \* and no other alloc under way
    nalloc        \* calls of alloc made

vars == <<mode, pc, todo, calls, req, src, had_written, shorts, produced,
          txlog, flushed, srv, script, sent, rx, rxClosed, header, stdout,
          stderr, rdlog, taken, result, past, gen_id, gen_ids, cpc, cid,
          wlock, wire, reqs, sprog, srx, acc, cres, cstep, cin, chdr, cchan,
          cgot, ipc, iret, ilock, held, hist, pairs, nalloc>>

\* The state of the tasks that call the id generator
poolVars == <<ipc, iret, ilock, held, hist, pairs, nalloc>>

\* The state of the record taken through the codec
codecVars == <<cstep, cin, chdr, cchan, cgot>>

\* The state of the shared client
sharedVars == <<gen_id, gen_ids, cpc, cid, wlock, wire, reqs, sprog, srx,
                acc, cres>>

\* The calls of the client and the shared client
callVars == <<todo, calls, req, past, sharedVars, poolVars>>

\* The shared client is not used by the calls made one at a time
reqVars == <<todo, calls, req, past, sharedVars, codecVars, poolVars>>

batchVars == <<src, had_written, shorts, produced>>

serverVars == <<srv, script, sent, rx, rxClosed>>

respVars == <<header, stdout, stderr, rdlog, taken>>

\* ------------------------------------------------------------------------
\* Inputs: requests
\* ------------------------------------------------------------------------

Pair(k, v) == [name |-> k, value |-> v]

Request(p, b) == [params |-> p, body |-> b]

\* "A" = "1"
PairA == Pair(Lit(<<65>>), Lit(<<49>>))

\* "B" = a value of 130 bytes (long form of the length)
PairB == Pair(Lit(<<66>>), Rep(120, 130))

\* a name of 127 bytes and a value of 65536 bytes (more than one record)
PairK == Pair(Rep(75, 127), Rep(118, 65536))

\* a name of 128 bytes (the shortest with the long form of the length) and a
\* value of 127 bytes (the longest with the short form)
PairC == Pair(Rep(67, 128), Rep(99, 127))

ParamSets ==
    { <<>>, <<PairA>>, <<PairA, PairB>>, <<PairB, PairA>>, <<PairK>>, <<PairC>> }

Bodies ==
    { <<>>,
      Lit(<<1, 2, 3>>),
      Rep(7, 32768),
      BCat(Rep(1, 1), BCat(Rep(2, 65533), Rep(3, 1))),
      BCat(Rep(1, 1), BCat(Rep(2, 65534), Rep(3, 1))),
      BCat(Rep(1, 65535), BCat(Rep(2, 65535), Rep(3, 2))) }

\* The request of the scenarios that vary the response instead
SimpleRequest == Request(<<PairA>>, Lit(<<9>>))

\* ------------------------------------------------------------------------
\* Inputs: what the server sends
\* ------------------------------------------------------------------------

\* A record as the server writes it: t is the type byte, declared the
\* content length its header declares, cut the number of bytes missing at
\* its end (a record cut short is the last thing a server sends); app and st
\* are the statuses the server put in an EndRequest body.
SrvRec(t, id, content, pad) ==
    [t |-> t, id |-> id, content |-> content, declared |-> BLen(content),
     pad |-> pad, cut |-> 0, close |-> FALSE, app |-> 0, st |-> 0]

\* EndRequest body: app_status (u32), protocol_status, reserved[3]
EndBody(app_status, status_byte) ==
    BCat(U32BE(app_status), BCat(Lit(<<status_byte>>), Rep(0, 3)))

SrvEnd(id, app_status, status_byte) ==
    [SrvRec(EndRequest, id, EndBody(app_status, status_byte), 0)
        EXCEPT !.app = app_status, !.st = status_byte]

\* The server closes the channel
SrvClose == [SrvRec(0, 0, <<>>, 0) EXCEPT !.close = TRUE]

DataRecs ==
    { SrvRec(Stdout, REQUEST_ID, Lit(<<97>>), 7),
      SrvRec(Stdout, REQUEST_ID, Lit(<<98, 99>>), 6),
      SrvRec(Stdout, REQUEST_ID, <<>>, 0),
      SrvRec(Stderr, REQUEST_ID, Lit(<<101, 102>>), 6) }

EndRecs ==
    { SrvEnd(REQUEST_ID, 0, 0), SrvEnd(REQUEST_ID, 42, 0),
      SrvEnd(REQUEST_ID, 42, 1), SrvEnd(REQUEST_ID, 42, 2),
      SrvEnd(REQUEST_ID, 16777216 + 5, 3), SrvEnd(REQUEST_ID, 0, 3),
      SrvEnd(REQUEST_ID, 42, 4), SrvEnd(REQUEST_ID, 7, 255) }

\* EndRequest records whose declared content is not the 8-byte body
OddEndRecs ==
    { SrvRec(EndRequest, REQUEST_ID, <<>>, 0),
      SrvRec(EndRequest, REQUEST_ID, BTake(EndBody(42, 2), 5), 3),
      SrvRec(EndRequest, REQUEST_ID, BCat(EndBody(42, 0), Rep(9, 8)), 0) }

OtherTypeRecs ==
    { SrvRec(t, REQUEST_ID, c, 0) :
        t \in {BeginRequest, AbortRequest, Params, Stdin, Data, GetValues,
               GetValuesResult, UnknownType, 0, 200},
        c \in {Lit(<<120>>)} }
    \cup { SrvRec(Data, REQUEST_ID, EndBody(0, 0), 0) }

OtherIdRecs ==
    { SrvRec(Stdout, 2, Lit(<<97>>), 7),
      SrvEnd(2, 0, 0),
      SrvRec(Stderr, 257, Lit(<<101, 102>>), 6),
      SrvRec(Params, 258, <<>>, 0) }

\* A record cut short, then the channel closed
CutRecs ==
    { [SrvRec(Stdout, REQUEST_ID, Lit(<<97>>), 7) EXCEPT !.cut = c] :
        c \in {1, 8, 12} }
    \cup { [SrvEnd(REQUEST_ID, 0, 0) EXCEPT !.cut = c] : c \in {3} }
    \cup { [SrvEnd(REQUEST_ID, 0, 0) EXCEPT !.pad = 4, !.cut = 2] }

RECURSIVE SeqsUpTo(_, _)
\* the sequences over S of length at most n
SeqsUpTo(S, n) ==
    IF n = 0 THEN { <<>> }
    ELSE LET shorter == SeqsUpTo(S, n - 1)
         IN  shorter \cup { Append(q, x) : q \in shorter, x \in S }

\* How a response can end: a final record, a record cut short and EOF, EOF,
\* or silence
Finals ==
    { <<r>> : r \in EndRecs \cup OddEndRecs \cup OtherTypeRecs \cup OtherIdRecs }
    \cup { <<r, SrvClose>> : r \in CutRecs }
    \cup { <<SrvClose>>, <<>> }

\* What may follow a first response on the channel
Tails ==
    { <<>>,
      <<SrvRec(Stdout, REQUEST_ID, Lit(<<122>>), 7)>>,
      <<SrvRec(Stdout, REQUEST_ID, Lit(<<122>>), 7), SrvEnd(REQUEST_ID, 0, 0)>> }

\* The Stdout / Stderr records of the longer responses
MainData == { r \in DataRecs : r.content # <<>> }

\* The ends of the longer responses
MainFinals ==
    { <<SrvEnd(REQUEST_ID, 0, 0)>>,
      <<SrvEnd(REQUEST_ID, 42, 2)>>,
      <<SrvRec(Params, REQUEST_ID, Lit(<<120>>), 0)>>,
      <<>> }

\* One response: any end after at most one Stdout / Stderr record, and the
\* main ends after up to MaxData of them
Scripts ==
    { d \o f : d \in SeqsUpTo(DataRecs, 1), f \in Finals }
    \cup { d \o f : d \in SeqsUpTo(MainData, MaxData), f \in MainFinals }

\* A complete response and what follows it
LongScripts ==
    { d \o <<e>> \o t :
        d \in SeqsUpTo(DataRecs, 1),
        e \in { SrvEnd(REQUEST_ID, 0, 0),
                [SrvEnd(REQUEST_ID, 0, 0) EXCEPT !.pad = 5] },
        t \in Tails }

\* A plain response
PlainScripts ==
    { <<SrvRec(Stdout, REQUEST_ID, Lit(<<97>>), 7), SrvEnd(REQUEST_ID, 0, 0)>> }

\* The bytes of a record on the wire, as a server writes it
SrvBytes(r) ==
    LET h == [version |-> VERSION_1, type |-> r.t, request_id |-> r.id,
              content_length |-> r.declared, padding_length |-> r.pad,
              reserved |-> 0]
        whole == BCat(HeaderBytes(h), BCat(r.content, Rep(0, r.pad)))
    IN  BTake(whole, BLen(whole) - r.cut)

RECURSIVE SrvStream(_)
\* The bytes of a sequence of script entries
SrvStream(q) ==
    IF q = <<>> THEN <<>>
    ELSE IF q[1].close THEN SrvStream(Tail(q))
    ELSE BCat(SrvBytes(q[1]), SrvStream(Tail(q)))

\* ------------------------------------------------------------------------
\* Init
\* ------------------------------------------------------------------------

Modes == {"ShortConn", "KeepAlive"}

NoHeader == Header_new(UnknownType, 0, 0)

RECURSIVE Repeat(_, _)
Repeat(x, n) == IF n = 0 THEN <<>> ELSE <<x>> \o Repeat(x, n - 1)

\* What the application will ask of the client: one request of any shape,
\* or up to MaxCalls simple ones
Workloads ==
    { <<Request(p, b)>> : p \in ParamSets, b \in Bodies }
    \cup { Repeat(SimpleRequest, n) : n \in 1..MaxCalls }

\* The callers that share a keep-alive client
Callers == {1, 2}

\* The accumulator of a request id nothing was routed to
NoAcc == [stdout |-> <<>>, stderr |-> <<>>, done |-> FALSE, st |-> 0]

\* RequestIdGenerator::new
GenFresh ==
    /\ gen_id = 0
    /\ gen_ids = {}

\* No call has been made on the shared client
CallersIdle ==
    /\ cpc = [c \in Callers |-> "idle"]
    /\ cid = [c \in Callers |-> 0]
    /\ wlock = 0
    /\ wire = <<>>
    /\ reqs = <<>>
    /\ sprog = <<>>
    /\ srx = <<>>
    /\ acc = <<>>
    /\ cres = [c \in Callers |-> NoResult]

\* The shared client before any call
SharedIdle == GenFresh /\ CallersIdle

\* The tasks that call alloc and release
Tasks == {1, 2}

\* No task has called alloc
PoolIdle ==
    /\ ipc = [t \in Tasks |-> "idle"]
    /\ iret = [t \in Tasks |-> NoResult]
    /\ ilock = 0
    /\ held = {}
    /\ hist = <<>>
    /\ pairs = TRUE
    /\ nalloc = 0

\* No record is given to the codec
NoRecord == [type |-> 0, request_id |-> 0, content |-> <<>>, next |-> <<>>,
             peer |-> FALSE]

\* Nothing has been read
NoneRead == [h |-> NoHeader, content |-> <<>>]

\* The codec before a record is given
CodecIdle ==
    /\ cstep = "idle"
    /\ cin = NoRecord
    /\ chdr = NoHeader
    /\ cchan = <<>>
    /\ cgot = NoneRead

\* No call has been made
NoCalls == [ok |-> TRUE, taken |-> 0, nread |-> 0, over |-> TRUE, cut |-> FALSE]

\* Client::new / Client::new_keep_alive: a client on a fresh channel
InitClient ==
    /\ mode \in Modes
    /\ todo \in Workloads
    /\ srv = "listening"
    /\ script = <<>>
    /\ pc = "idle"
    /\ calls = 0
    /\ req = Request(<<>>, <<>>)
    /\ src = <<>>
    /\ had_written = FALSE
    /\ shorts = 0
    /\ produced = <<>>
    /\ txlog = <<>>
    /\ flushed = FALSE
    /\ sent = <<>>
    /\ rx = <<>>
    /\ rxClosed = FALSE
    /\ header = NoHeader
    /\ stdout = <<>>
    /\ stderr = <<>>
    /\ rdlog = <<>>
    /\ taken = 0
    /\ result = NoResult
    /\ past = NoCalls

\* The client, and nothing else in use
Init == InitClient /\ SharedIdle /\ CodecIdle /\ PoolIdle

\* ------------------------------------------------------------------------
\* The request (client.rs: execute, inner_execute, handle_request)
\* ------------------------------------------------------------------------

\* Faulty variant of `&mut self`: a call may start while another is under way
CanStart_any(p) == p \notin {"panicked"}

\* `self` of execute_once and `&mut self` of execute: the borrow of the
\* client ends when the call returns, and no call starts before
CanStart(p) == p \in {"idle", "returned"}

\* Faulty variant of execute_once: it borrows the client as execute does
Consumed_never(m, n) == FALSE

\* execute_once and execute_once_stream take `self` by value: a client made
\* by Client::new is gone once one of them has been called (n calls so far)
Consumed(m, n) == ~is_keep_alive(m) /\ n > 0

\* What is kept of the calls before the current one: ok, they all returned
\* Ok; taken and nread, the bytes they took from the channel and the records
\* they read (kept while ok); over, each had flushed its records, or
\* returned an I/O error, when the next one started; cut, one of them left
\* a record written in part (its header, without all its content and padding)
Returned ==
    LET ok == past.ok /\ result.kind = "Ok"
    IN  [ok    |-> ok,
         taken |-> IF ok THEN past.taken + taken ELSE 0,
         nread |-> IF ok THEN past.nread + Len(rdlog) ELSE 0,
         over  |-> past.over /\ (flushed \/ result.kind = "IoError"),
         cut   |-> past.cut \/ (txlog # <<>> /\ txlog[Len(txlog)].wrote \in {1, 2})]

\* Client::execute_once (takes the client by value: one call) and
\* Client::execute (borrows it: any number of calls, one at a time)
Execute ==
    /\ CanStart(pc)
    /\ todo # <<>>
    /\ calls < MaxCalls
    /\ ~Consumed(mode, calls)
    /\ pc' = "start"
    /\ req' = Head(todo)
    /\ todo' = Tail(todo)
    /\ calls' = calls + 1
    /\ past' = IF calls = 0 THEN past ELSE Returned
    /\ UNCHANGED <<sharedVars, codecVars, poolVars>>
    /\ src' = <<>>
    /\ had_written' = FALSE
    /\ shorts' = 0
    /\ produced' = <<>>
    /\ txlog' = <<>>
    /\ flushed' = FALSE
    /\ header' = NoHeader
    /\ stdout' = <<>>
    /\ stderr' = <<>>
    /\ rdlog' = <<>>
    /\ taken' = 0
    /\ result' = NoResult
    /\ UNCHANGED <<mode, serverVars>>

\* One record in txlog: wrote is the number of the three write_all calls of
\* Header::write_to_stream (header, content, padding) that completed.
Wrote(h, content, w) == [h |-> h, content |-> content, wrote |-> w]

\* Header::write_to_stream: the write that fails returns the error
WriteOutcomes == 0..3

\* Faulty variant of `write_all(..).await?`: the error is dropped
Written_ignored(w) == TRUE

\* Header::write_to_stream returned Ok(()): its three write_all calls did
Written(w) == w = 3

\* Faulty variant of handle_request: the body is written before the params
AfterStep_body_first(p) ==
    CASE p = "start"      -> "body"
      [] p = "body"       -> "body_end"
      [] p = "body_end"   -> "params"
      [] p = "params"     -> "params_end"
      [] p = "params_end" -> "flush"
      [] p = "flush"      -> "response"

\* Faulty variant of inner_execute: handle_request_flush is left out
AfterStep_no_flush(p) ==
    CASE p = "start"      -> "params"
      [] p = "params"     -> "params_end"
      [] p = "params_end" -> "body"
      [] p = "body"       -> "body_end"
      [] p = "body_end"   -> "response"
      [] p = "flush"      -> "response"

\* Faulty variant of handle_request_params: the second call of
\* write_to_stream_batches (over io::empty()) is left out
AfterStep_no_params_end(p) ==
    CASE p = "start"      -> "params"
      [] p = "params"     -> "body"
      [] p = "params_end" -> "body"
      [] p = "body"       -> "body_end"
      [] p = "body_end"   -> "flush"
      [] p = "flush"      -> "response"

\* Faulty variant of handle_request_body: the second call of
\* write_to_stream_batches (over io::empty()) is left out
AfterStep_no_body_end(p) ==
    CASE p = "start"      -> "params"
      [] p = "params"     -> "params_end"
      [] p = "params_end" -> "body"
      [] p = "body"       -> "flush"
      [] p = "body_end"   -> "flush"
      [] p = "flush"      -> "response"

\* handle_request: the step after each of its steps
AfterStep(p) ==
    CASE p = "start"      -> "params"
      [] p = "params"     -> "params_end"
      [] p = "params_end" -> "body"
      [] p = "body"       -> "body_end"
      [] p = "body_end"   -> "flush"
      [] p = "flush"      -> "response"

\* The reader each call of write_to_stream_batches is given
ReaderOf(p, r) ==
    CASE p = "params" -> ParamPairs_to_content(r.params)
      [] p = "body"   -> r.body
      [] OTHER        -> <<>>

\* The record type each call of write_to_stream_batches is given
BatchType(p) == IF p \in {"params", "params_end"} THEN Params ELSE Stdin

BatchPcs == {"params", "params_end", "body", "body_end"}

\* handle_request_start: BeginRequestRec::new + write_to_stream
handle_request_start ==
    /\ pc = "start"
    /\ LET content == BeginRequest_content(Responder, is_keep_alive(mode))
           h == Header_new(BeginRequest, REQUEST_ID, BLen(content))
       IN  \E w \in WriteOutcomes :
             /\ txlog' = Append(txlog, Wrote(h, content, w))
             /\ IF Written(w)
                THEN /\ pc' = AfterStep(pc)
                     /\ src' = ReaderOf(pc', req)
                     /\ result' = result
                ELSE /\ pc' = "returned"
                     /\ src' = src
                     /\ result' = IoError("write")
    /\ UNCHANGED <<mode, reqVars, had_written, shorts, produced, flushed,
                   serverVars, respVars>>

\* Sizes of the short reads the body reader may make
ShortSizes == {0, 2, 32768, 65534}

\* Faulty variant of write_to_stream_batches: the buffer takes all the source
\* has
ReadSizes_unbounded(p, avail, sh) == {avail}

\* What content.read(&mut buf) may return, buf being MAX_LENGTH bytes: a
\* slice and io::empty() give all they can; the caller's body reader may
\* give less (0 included, which the loop takes for the end).
ReadSizes(p, avail, sh) ==
    {Min(avail, MAX_LENGTH)}
    \cup IF p = "body" /\ sh < MaxShortReads
         THEN { n \in ShortSizes : n < Min(avail, MAX_LENGTH) }
         ELSE {}

\* Faulty variant of `&buf[..read]`: `&buf`, the whole zero-filled buffer
BufSlice_whole(s, read) == BCat(BTake(s, read), Rep(0, MAX_LENGTH - read))

\* `&buf[..read]`
BufSlice(s, read) == BTake(s, read)

\* Faulty variant of write_to_stream_batches: `if read == 0 { break; }`
BatchBreaks_on_zero(hw, read) == read = 0

\* write_to_stream_batches: `if had_written && read == 0 { break; }`
BatchBreaks(hw, read) == hw /\ read = 0

\* write_to_stream_batches, the iteration that ends the loop
BatchBreak ==
    /\ pc \in BatchPcs
    /\ \E read \in ReadSizes(pc, BLen(src), shorts) :
         /\ BatchBreaks(had_written, read)
         /\ pc' = AfterStep(pc)
         /\ src' = ReaderOf(pc', req)
         /\ had_written' = FALSE
         /\ shorts' = IF read < Min(BLen(src), MAX_LENGTH) THEN shorts + 1
                      ELSE shorts
    /\ UNCHANGED <<mode, reqVars, produced, txlog, flushed, serverVars,
                   respVars, result>>

\* write_to_stream_batches, an iteration that writes a record
BatchWrite ==
    /\ pc \in BatchPcs
    /\ \E read \in ReadSizes(pc, BLen(src), shorts) :
         /\ ~BatchBreaks(had_written, read)
         /\ LET buf == BufSlice(src, read)
                h == Header_new(BatchType(pc), REQUEST_ID, BLen(buf))
            IN  /\ src' = BDrop(src, read)
                /\ produced' = IF pc = "body" THEN BCat(produced, BTake(src, read))
                               ELSE produced
                /\ shorts' = IF read < Min(BLen(src), MAX_LENGTH) THEN shorts + 1
                             ELSE shorts
                /\ \/ /\ NegOverflows(BLen(buf))
                      /\ pc' = "panicked"
                      /\ result' = Panic
                      /\ UNCHANGED <<txlog, had_written>>
                   \/ \E w \in WriteOutcomes :
                        /\ txlog' = Append(txlog, Wrote(h, buf, w))
                        /\ IF Written(w)
                           THEN /\ had_written' = TRUE
                                /\ UNCHANGED <<pc, result>>
                           ELSE /\ pc' = "returned"
                                /\ result' = IoError("write")
                                /\ UNCHANGED had_written
    /\ UNCHANGED <<mode, reqVars, flushed, serverVars, respVars>>

\* write_to_stream_batches: `content.read(&mut buf).await?` of the body fails
BodyReadError ==
    /\ pc = "body"
    /\ pc' = "returned"
    /\ result' = IoError("read")
    /\ UNCHANGED <<mode, reqVars, batchVars, txlog, flushed, serverVars, respVars>>

\* handle_request_flush
handle_request_flush ==
    /\ pc = "flush"
    /\ \/ /\ flushed' = TRUE
          /\ pc' = AfterStep(pc)
          /\ result' = result
       \/ /\ flushed' = flushed
          /\ pc' = "returned"
          /\ result' = IoError("flush")
    /\ UNCHANGED <<mode, reqVars, batchVars, txlog, serverVars, respVars>>

\* ------------------------------------------------------------------------
\* The response (client.rs: handle_response)
\* ------------------------------------------------------------------------

\* Faulty variant of the match: a Data record ends the response as an
\* EndRequest record does
Dispatch_data_ends(type) ==
    CASE type = Stdout     -> "stdout"
      [] type = Stderr     -> "stderr"
      [] type = EndRequest -> "end"
      [] type = Data       -> "end"
      [] OTHER             -> "other"

\* Faulty variant of the match: a record of another type is read and skipped
Dispatch_skips_others(type) ==
    CASE type = Stdout     -> "stdout"
      [] type = Stderr     -> "stderr"
      [] type = EndRequest -> "end"
      [] OTHER             -> "skip"

\* Faulty variant of the match: an EndRequest record is taken for output and
\* the loop goes on
Dispatch_end_as_data(type) ==
    CASE type = Stdout     -> "stdout"
      [] type = Stderr     -> "stderr"
      [] type = EndRequest -> "stdout"
      [] OTHER             -> "other"

\* handle_response: the arm of `match header.r#type`
Dispatch(type) ==
    CASE type = Stdout     -> "stdout"
      [] type = Stderr     -> "stderr"
      [] type = EndRequest -> "end"
      [] OTHER             -> "other"

\* Faulty variant of extend: the new content is put first
Extend_prepend(buf, content) == BCat(content, buf)

\* stdout.extend(..) / stderr.extend(..)
Extend(buf, content) == BCat(buf, content)

\* Faulty variant of the Option logic: the buffer is always given as Some
OptBytes_always_some(b) == Some(b)

\* `if stdout.is_empty() { None } else { Some(stdout) }`
OptBytes(b) == IF b = <<>> THEN None ELSE Some(b)

\* Faulty variant of the EndRequest arm: the protocol status is not looked at
\* and what was accumulated is returned
EndResult_partial(buf, out, err) == Ok(OptBytes(out), OptBytes(err))

\* handle_response: what the EndRequest arm returns for the body `buf`
EndResult(buf, out, err) ==
    LET e == EndRequestRec_new_from_buf(buf)
    IN  IF convert_to_client_result(e.protocol_status)
        THEN Ok(OptBytes(out), OptBytes(err))
        ELSE new_end_request_with_protocol_status(e.protocol_status, e.app_status)

\* Faulty variant of read_content_from_stream: the padding is not waited for
Needed_no_padding == IF pc = "response" THEN HEADER_LEN
                     ELSE header.content_length

\* The bytes the pending read_exact calls ask for
Needed == IF pc = "response" THEN HEADER_LEN
          ELSE header.content_length + header.padding_length

\* Header::new_from_stream, the id check and the arm of any other type
ReadHeader ==
    /\ pc = "response"
    /\ BLen(rx) >= HEADER_LEN
    /\ LET h == Header_new_from_buf(BTake(rx, HEADER_LEN))
       IN  /\ rx' = BDrop(rx, HEADER_LEN)
           /\ taken' = taken + HEADER_LEN
           /\ header' = h
           /\ rdlog' = Append(rdlog, [h |-> h, content |-> <<>>, whole |-> FALSE])
           /\ IF h.request_id # REQUEST_ID
              THEN /\ pc' = "returned"
                   /\ result' = ResponseNotFound(REQUEST_ID)
              ELSE IF Dispatch(h.type) = "other"
              THEN /\ pc' = "returned"
                   /\ result' = UnknownRequestType(h.type)
              ELSE /\ pc' = "content"
                   /\ result' = result
    /\ UNCHANGED <<mode, reqVars, batchVars, txlog, flushed, srv, script, sent,
                   rxClosed, stdout, stderr>>

\* Header::read_content_from_stream (content, then padding) and the arms of
\* Stdout, Stderr and EndRequest
ReadContent ==
    /\ pc = "content"
    /\ BLen(rx) >= Needed
    /\ LET content == BTake(rx, header.content_length)
           arm == Dispatch(header.type)
       IN  /\ rx' = BDrop(rx, header.content_length + header.padding_length)
           /\ taken' = taken + header.content_length + header.padding_length
           /\ rdlog' = [rdlog EXCEPT ![Len(rdlog)] =
                           [h |-> header, content |-> content, whole |-> TRUE]]
           /\ stdout' = IF arm = "stdout" THEN Extend(stdout, content) ELSE stdout
           /\ stderr' = IF arm = "stderr" THEN Extend(stderr, content) ELSE stderr
           /\ IF arm # "end"
              THEN /\ pc' = "response"
                   /\ result' = result
              ELSE IF EndRequest_panics(content)
              THEN /\ pc' = "panicked"
                   /\ result' = Panic
              ELSE /\ pc' = "returned"
                   /\ result' = EndResult(content, stdout, stderr)
    /\ UNCHANGED <<mode, reqVars, batchVars, txlog, flushed, srv, script, sent,
                   rxClosed, header>>

\* read_exact meets the end of the channel: UnexpectedEof
ReadEof ==
    /\ pc \in {"response", "content"}
    /\ rxClosed
    /\ BLen(rx) < Needed
    /\ rx' = <<>>
    /\ taken' = taken + BLen(rx)
    /\ pc' = "returned"
    /\ result' = IoError("eof")
    /\ UNCHANGED <<mode, reqVars, batchVars, txlog, flushed, srv, script, sent,
                   rxClosed, header, stdout, stderr, rdlog>>

\* read_exact fails with another error of the transport
ReadFault ==
    /\ pc \in {"response", "content"}
    /\ pc' = "returned"
    /\ result' = IoError("read")
    /\ UNCHANGED <<mode, reqVars, batchVars, txlog, flushed, serverVars,
                   header, stdout, stderr, rdlog, taken>>

\* ------------------------------------------------------------------------
\* The server
\* ------------------------------------------------------------------------

\* The responses explored. To the only call of a client, of the simple
\* request: every shape of response once the request is flushed, and a plain
\* response sent before that. To a request of another shape: a plain
\* response, once it is flushed. On a client with several calls: a complete
\* response and more behind it, once the first request is flushed.
Responses ==
    IF req = SimpleRequest /\ calls = 1 /\ todo = <<>>
    THEN IF flushed THEN Scripts ELSE PlainScripts
    ELSE IF ~flushed THEN {}
    ELSE IF req # SimpleRequest THEN PlainScripts
    ELSE LongScripts

\* The server settles what it sends
ServerChoose ==
    /\ srv = "listening"
    /\ srv' = "responding"
    /\ script' \in Responses
    /\ UNCHANGED <<mode, pc, reqVars, batchVars, txlog, flushed, sent, rx,
                   rxClosed, respVars, result>>

\* The server sends its next record, or all it has left, once the channel is
\* drained; it closes the channel at any time.
ServerSend ==
    /\ script # <<>>
    /\ ~rxClosed
    /\ rx = <<>> \/ script[1].close
    /\ \E k \in {1, Len(script)} :
         LET now == SubSeq(script, 1, k)
         IN  /\ rx' = BCat(rx, SrvStream(now))
             /\ rxClosed' = \E i \in 1..k : now[i].close
             /\ sent' = sent \o now
             /\ script' = SubSeq(script, k + 1, Len(script))
    /\ UNCHANGED <<srv, mode, pc, reqVars, batchVars, txlog, flushed, respVars, result>>

\* ------------------------------------------------------------------------
\* Specification
\* ------------------------------------------------------------------------

Next ==
    \/ Execute
    \/ handle_request_start
    \/ BatchBreak
    \/ BatchWrite
    \/ BodyReadError
    \/ handle_request_flush
    \/ ReadHeader
    \/ ReadContent
    \/ ReadEof
    \/ ReadFault
    \/ ServerChoose
    \/ ServerSend

Spec == Init /\ [][Next]_vars

\* Header::new_from_stream can return: the 8 bytes of a header are in the
\* channel (this is ENABLED <<ReadHeader>>_vars, written out)
HeaderReady == pc = "response" /\ BLen(rx) >= HEADER_LEN

\* The client with its pending reads completed: a read_exact of
\* handle_response whose bytes are in the channel, or whose channel is
\* closed, is polled until it returns (the task is awaited by its caller);
\* nothing is asked of the server nor of the writes. The condition on
\* ReadHeader is WF_vars(ReadHeader) with its enabling condition written out.
SpecFair ==
    /\ Spec
    /\ WF_vars(ReadContent)
    /\ WF_vars(ReadEof)
    /\ ([]<>(~HeaderReady) \/ []<><<ReadHeader>>_vars)

\* ------------------------------------------------------------------------
\* Vocabulary of the properties
\* ------------------------------------------------------------------------

Last(q) == q[Len(q)]

\* All records of the request have been written in full (the flush may then
\* have succeeded, failed, or be pending)
RecordsWritten == pc = "flush" \/ flushed \/ result = IoError("flush")

\* No write of the current call has failed or panicked
WritesWhole ==
    /\ pc = "panicked" => flushed
    /\ \A i \in 1..Len(txlog) : txlog[i].wrote = 3

EmptyRec(i, type) ==
    /\ txlog[i].h.type = type
    /\ txlog[i].h.content_length = 0
    /\ txlog[i].content = <<>>

DataRec(i, type) ==
    /\ txlog[i].h.type = type
    /\ txlog[i].content # <<>>

RECURSIVE ContentOf(_, _)
\* The contents of the records of one type in a log, concatenated in order
ContentOf(log, type) ==
    IF log = <<>> THEN <<>>
    ELSE BCat(IF log[1].h.type = type THEN log[1].content ELSE <<>>,
              ContentOf(Tail(log), type))

RECURSIVE SentContent(_, _)
\* The contents of the records of one type byte the server sent, in order
SentContent(q, t) ==
    IF q = <<>> THEN <<>>
    ELSE BCat(IF q[1].t = t THEN q[1].content ELSE <<>>, SentContent(Tail(q), t))

\* A Stdout or Stderr record of the request, sent whole
GoodData(r) ==
    /\ ~r.close
    /\ r.t \in {Stdout, Stderr}
    /\ r.id = REQUEST_ID
    /\ r.cut = 0
    /\ r.declared = BLen(r.content)

\* An EndRequest record of the request with its 8-byte body, sent whole
GoodEnd(r) ==
    /\ ~r.close
    /\ r.t = EndRequest
    /\ r.id = REQUEST_ID
    /\ r.cut = 0
    /\ r.declared = 8
    /\ r.content = EndBody(r.app, r.st)

\* The first n records the server sent are a response of Stdout / Stderr
\* records closed by an EndRequest record
ResponseOf(n) ==
    /\ n \in 1..Len(sent)
    /\ GoodEnd(sent[n])
    /\ \A i \in 1..(n - 1) : GoodData(sent[i])

RECURSIVE TakenFor(_)
\* The bytes of the channel that reading the records of a log takes
TakenFor(log) ==
    IF log = <<>> THEN 0
    ELSE HEADER_LEN
         + (IF log[1].whole
            THEN log[1].h.content_length + log[1].h.padding_length ELSE 0)
         + TakenFor(Tail(log))

\* The records of a log but the last
Front(q) == SubSeq(q, 1, Len(q) - 1)

\* The first call of a client reads the records the server sent, in order
ReadsWhatWasSent ==
    /\ Len(rdlog) <= Len(sent)
    /\ \A i \in 1..Len(rdlog) :
         /\ rdlog[i].h.request_id = sent[i].id
         /\ rdlog[i].h.type = RequestType_from_u8(sent[i].t)
         /\ rdlog[i].whole => rdlog[i].content = sent[i].content

\* ------------------------------------------------------------------------
\* A keep-alive client shared by concurrent calls: ids from
\* RequestIdGenerator (id.rs); the write phase of a call under the write-side
\* lock, the reads one record at a time, routed by request id into per-id
\* accumulators. The transport does not fail here and the server completes
\* every request.
\* ------------------------------------------------------------------------

\* id.rs: MAX_REQUEST_ID = u16::max_value() - 1
MAX_REQUEST_ID == 65534

\* Faulty variant of inner_alloc: the fixed id of the one-shot client
inner_alloc_fixed(id, ids) == REQUEST_ID

RECURSIVE inner_alloc(_, _)
\* RequestIdGenerator::inner_alloc, from the counter `id` and the set `ids`:
\* the counter wraps to 0 at MAX_REQUEST_ID, is incremented, and is taken
\* unless `ids` holds it
inner_alloc(id, ids) ==
    LET next == (IF id >= MAX_REQUEST_ID THEN 0 ELSE id) + 1
    IN  IF next \in ids THEN inner_alloc(next, ids) ELSE next

\* The state of the calls made one at a time
soloVars == <<mode, pc, todo, calls, req, past, batchVars, txlog, flushed,
              serverVars, respVars, result, codecVars, poolVars>>

\* The body each caller posts
ShBody(c) == Lit(<<48 + c>>)

\* The content of the record a call writes at each step
ShContent(c, p) ==
    CASE p = "start"  -> BeginRequest_content(Responder, TRUE)
      [] p = "params" -> ParamPairs_to_content(<<PairA>>)
      [] p = "body"   -> ShBody(c)
      [] OTHER        -> <<>>

\* The record type of each step
ShType(p) == IF p = "start" THEN BeginRequest ELSE BatchType(p)

\* The request the server has received when a call flushes: the records from
\* the last BeginRequest record on
ShReceived ==
    LET first == CHOOSE i \in 1..Len(wire) :
                    /\ wire[i].h.type = BeginRequest
                    /\ \A j \in (i + 1)..Len(wire) : wire[j].h.type # BeginRequest
        recs == SubSeq(wire, first, Len(wire))
    IN  [id |-> wire[first].h.request_id, body |-> ContentOf(recs, Stdin)]

\* What the server answers to a request: its body on Stdout, a byte on
\* Stderr, EndRequest(RequestComplete), under the request's id
ShResponse(r) ==
    << SrvRec(Stdout, r.id, r.body, 7),
       SrvRec(Stderr, r.id, Lit(<<101>>), 7),
       SrvEnd(r.id, 0, 0) >>

\* execute: the call takes a request id
ShAlloc(c) ==
    /\ cpc[c] = "idle"
    /\ LET id == inner_alloc(gen_id, gen_ids)
       IN  /\ gen_id' = id
           /\ cid' = [cid EXCEPT ![c] = id]
           /\ acc' = [i \in DOMAIN acc \cup {id} |->
                        IF i = id THEN NoAcc ELSE acc[i]]
    /\ cpc' = [cpc EXCEPT ![c] = "allocated"]
    /\ UNCHANGED <<soloVars, gen_ids, wlock, wire, reqs, sprog, srx, cres>>

\* The call takes the write side for its whole write phase
ShLock(c) ==
    /\ cpc[c] = "allocated"
    /\ wlock = 0
    /\ wlock' = c
    /\ cpc' = [cpc EXCEPT ![c] = "start"]
    /\ UNCHANGED <<soloVars, gen_id, gen_ids, cid, wire, reqs, sprog, srx,
                   acc, cres>>

\* The call writes the record of its step
ShWrite(c) ==
    /\ cpc[c] \in {"start"} \cup BatchPcs
    /\ wlock = c
    /\ LET content == ShContent(c, cpc[c])
           h == Header_new(ShType(cpc[c]), cid[c], BLen(content))
       IN  wire' = Append(wire, Wrote(h, content, 3))
    /\ cpc' = [cpc EXCEPT ![c] = AfterStep(cpc[c])]
    /\ UNCHANGED <<soloVars, gen_id, gen_ids, cid, wlock, reqs, sprog, srx,
                   acc, cres>>

\* The call flushes, gives up the write side and awaits its response
ShFlush(c) ==
    /\ cpc[c] = "flush"
    /\ wlock = c
    /\ wlock' = 0
    /\ reqs' = Append(reqs, ShReceived)
    /\ sprog' = Append(sprog, 0)
    /\ cpc' = [cpc EXCEPT ![c] = AfterStep(cpc[c])]
    /\ UNCHANGED <<soloVars, gen_id, gen_ids, cid, wire, srx, acc, cres>>

\* The server sends the next record of one of its responses
ShServe(k) ==
    /\ k \in 1..Len(reqs)
    /\ sprog[k] < Len(ShResponse(reqs[k]))
    /\ srx' = Append(srx, ShResponse(reqs[k])[sprog[k] + 1])
    /\ sprog' = [sprog EXCEPT ![k] = sprog[k] + 1]
    /\ UNCHANGED <<soloVars, gen_id, gen_ids, cpc, cid, wlock, wire, reqs,
                   acc, cres>>

\* A waiting call reads one record and routes it by its request id
ShRead(c) ==
    /\ cpc[c] = "response"
    /\ ~acc[cid[c]].done
    /\ srx # <<>>
    /\ LET bytes == SrvBytes(Head(srx))
           h == Header_new_from_buf(BTake(bytes, HEADER_LEN))
           content == BTake(BDrop(bytes, HEADER_LEN), h.content_length)
           arm == Dispatch(h.type)
           id == h.request_id
       IN  /\ id \in DOMAIN acc
           /\ acc' = [acc EXCEPT ![id] =
                        CASE arm = "stdout" -> [@ EXCEPT !.stdout = Extend(@, content)]
                          [] arm = "stderr" -> [@ EXCEPT !.stderr = Extend(@, content)]
                          [] arm = "end"    -> [@ EXCEPT !.done = TRUE,
                                                         !.st = BAt(content, 4)]
                          [] OTHER          -> @]
    /\ srx' = Tail(srx)
    /\ UNCHANGED <<soloVars, gen_id, gen_ids, cpc, cid, wlock, wire, reqs,
                   sprog, cres>>

\* A call whose request is terminated returns and releases its id
ShReturn(c) ==
    /\ cpc[c] = "response"
    /\ acc[cid[c]].done
    /\ cres' = [cres EXCEPT ![c] =
                  IF convert_to_client_result(ProtocolStatus_from_u8(acc[cid[c]].st))
                  THEN Ok(OptBytes(acc[cid[c]].stdout), OptBytes(acc[cid[c]].stderr))
                  ELSE new_end_request_with_protocol_status(
                           ProtocolStatus_from_u8(acc[cid[c]].st), 0)]
    /\ gen_ids' = gen_ids \ {cid[c]}
    /\ cpc' = [cpc EXCEPT ![c] = "returned"]
    /\ UNCHANGED <<soloVars, gen_id, cid, wlock, wire, reqs, sprog, srx, acc>>

\* Client::new_keep_alive, with two callers about to call execute
InitShared ==
    /\ Init
    /\ mode = "KeepAlive"
    /\ todo = <<SimpleRequest>>

NextShared ==
    \/ \E c \in Callers : ShAlloc(c)
    \/ \E c \in Callers : ShLock(c)
    \/ \E c \in Callers : ShWrite(c)
    \/ \E c \in Callers : ShFlush(c)
    \/ \E k \in 1..Len(reqs) : ShServe(k)
    \/ \E c \in Callers : ShRead(c)
    \/ \E c \in Callers : ShReturn(c)

SpecShared == InitShared /\ [][NextShared]_vars

\* ------------------------------------------------------------------------
\* One record through the codec (meta.rs): built by Header::new, written by
\* Header::write_to_stream, read back by Header::new_from_stream and
\* Header::read_content_from_stream; or written by the peer and read. The
\* transport does not fail here.
\* ------------------------------------------------------------------------

\* Faulty variant of write_to_stream: no padding is written
RecordBytes_no_padding(h, content) == BCat(HeaderBytes(h), content)

\* Header::write_to_stream, its three write_all calls done: the header, the
\* content, padding_length zeros
RecordBytes(h, content) ==
    BCat(HeaderBytes(h), BCat(content, Rep(0, h.padding_length)))

\* The record types (enum RequestType)
RecordTypes == BeginRequest..UnknownType

\* Request ids: 0, the fixed id, ids with a high byte, the largest
CodecIds == {0, REQUEST_ID, 258, 65535}

\* Content lengths around the multiples of 8, the i16 limit and MAX_LENGTH
CodecLens == {0, 1, 7, 8, 9, 255, 256, 32767, 32768, 32769, 65528, 65535}

\* Contents: runs of one byte of those lengths, and bytes that differ
CodecContents ==
    { Rep(5, n) : n \in CodecLens }
    \cup { Lit(<<1, 2, 3>>), EndBody(42, 2),
           BCat(Rep(0, 3), BCat(Rep(9, 65531), Rep(0, 1))) }

\* What may follow the record on the channel
CodecNexts == { <<>>, Lit(<<0, 255>>) }

\* Type bytes a peer may write
TypeBytes == 0..255

\* A record is given to Header::new
CodecInput ==
    /\ cstep = "idle"
    /\ \E t \in RecordTypes, id \in CodecIds, c \in CodecContents,
          n \in CodecNexts :
         cin' = [type |-> t, request_id |-> id, content |-> c, next |-> n,
                 peer |-> FALSE]
    /\ cstep' = "new"
    /\ UNCHANGED <<mode, pc, callVars, batchVars, txlog, flushed,
                   serverVars, respVars, result, chdr, cchan, cgot>>

\* Header::new: the negation overflows (a panic where overflow is checked,
\* a wrap where it is not), or the header is built
CodecNew ==
    /\ cstep = "new"
    /\ \/ /\ NegOverflows(BLen(cin.content))
          /\ cstep' = "panicked"
          /\ chdr' = chdr
       \/ /\ chdr' = Header_new(cin.type, cin.request_id, BLen(cin.content))
          /\ cstep' = "built"
    /\ UNCHANGED <<mode, pc, callVars, batchVars, txlog, flushed,
                   serverVars, respVars, result, cin, cchan, cgot>>

\* Header::write_to_stream, then whatever is written next
CodecWrite ==
    /\ cstep = "built"
    /\ cchan' = BCat(RecordBytes(chdr, cin.content), cin.next)
    /\ cstep' = "written"
    /\ UNCHANGED <<mode, pc, callVars, batchVars, txlog, flushed,
                   serverVars, respVars, result, cin, chdr, cgot>>

\* The peer writes a record, of any type byte
CodecPeer ==
    /\ cstep = "idle"
    /\ \E b \in TypeBytes, id \in {REQUEST_ID}, c \in {<<>>, Lit(<<1, 2, 3>>)} :
         /\ cin' = [type |-> b, request_id |-> id, content |-> c,
                    next |-> <<>>, peer |-> TRUE]
         /\ cchan' = SrvBytes(SrvRec(b, id, c, 5))
    /\ cstep' = "written"
    /\ UNCHANGED <<mode, pc, callVars, batchVars, txlog, flushed,
                   serverVars, respVars, result, chdr, cgot>>

\* Header::new_from_stream
CodecReadHeader ==
    /\ cstep = "written"
    /\ BLen(cchan) >= HEADER_LEN
    /\ cgot' = [h |-> Header_new_from_buf(BTake(cchan, HEADER_LEN)),
                content |-> <<>>]
    /\ cchan' = BDrop(cchan, HEADER_LEN)
    /\ cstep' = "header"
    /\ UNCHANGED <<mode, pc, callVars, batchVars, txlog, flushed,
                   serverVars, respVars, result, cin, chdr>>

\* Header::read_content_from_stream: the content, then the padding
CodecReadContent ==
    /\ cstep = "header"
    /\ BLen(cchan) >= cgot.h.content_length + cgot.h.padding_length
    /\ cgot' = [cgot EXCEPT !.content = BTake(cchan, cgot.h.content_length)]
    /\ cchan' = BDrop(cchan, cgot.h.content_length + cgot.h.padding_length)
    /\ cstep' = "read"
    /\ UNCHANGED <<mode, pc, callVars, batchVars, txlog, flushed,
                   serverVars, respVars, result, cin, chdr>>

\* A client that makes no call, and a record for its codec
InitCodec ==
    /\ Init
    /\ mode = "ShortConn"
    /\ todo = <<SimpleRequest>>

NextCodec ==
    \/ CodecInput
    \/ CodecNew
    \/ CodecWrite
    \/ CodecPeer
    \/ CodecReadHeader
    \/ CodecReadContent

SpecCodec == InitCodec /\ [][NextCodec]_vars

\* ------------------------------------------------------------------------
\* RequestIdGenerator (id.rs), called by tasks that share it: alloc under its
\* timeout, release. The lock of `ids` is only held between two await
\* points that nothing separates, so what is done under it is one step.
\* ------------------------------------------------------------------------

\* Calls of alloc in one behaviour
MaxAllocs == 3

\* The ids of the pool
Pool == 1..MAX_REQUEST_ID

\* Faulty variant of the counter step: no wrap
Bump_no_wrap(id) == id + 1

\* Faulty variant of the wrap: one id early
Bump_wrap_early(id) == (IF id >= MAX_REQUEST_ID - 1 THEN 0 ELSE id) + 1

\* inner_alloc: `if *id >= MAX_REQUEST_ID { *id = 0; } *id += 1;`
Bump(id) == (IF id >= MAX_REQUEST_ID THEN 0 ELSE id) + 1

\* ClientError::RequestIdGenerateTimeout
RequestIdGenerateTimeout == [kind |-> "RequestIdGenerateTimeout"]

\* Ok(id) of alloc; out: the id was outstanding when alloc returned it;
\* full: every id of the pool was
Allocated(id, out, full) == [kind |-> "Id", id |-> id, out |-> out, full |-> full]

\* The ids alloc returned, one more
HistAdd(h, id) ==
    IF h # <<>> /\ h[Len(h)].hi + 1 = id
    THEN [h EXCEPT ![Len(h)].hi = id]
    ELSE Append(h, [lo |-> id, hi |-> id])

RECURSIVE HistCount(_)
\* How many ids alloc returned
HistCount(h) ==
    IF h = <<>> THEN 0 ELSE (h[1].hi - h[1].lo + 1) + HistCount(Tail(h))

\* No id was returned twice
HistDistinct(h) ==
    \A i, j \in 1..Len(h) : i < j => h[i].hi < h[j].lo \/ h[j].hi < h[i].lo

\* The one run of ids 1..n
Run(n) == <<[lo |-> 1, hi |-> n]>>

\* The id is outstanding
Holds(h, i) == \E r \in h : r.lo <= i /\ i <= r.hi

\* Every id of the pool is outstanding: id 1 is, and the id after each run
\* is, up to MAX_REQUEST_ID
HoldsAll(h) ==
    /\ Holds(h, 1)
    /\ \A r \in h : r.hi = MAX_REQUEST_ID \/ Holds(h, r.hi + 1)

\* The id becomes outstanding
HeldAdd(h, i) == IF Holds(h, i) THEN h ELSE h \cup {[lo |-> i, hi |-> i]}

\* The id is outstanding no more
HeldDel(h, i) ==
    LET r == CHOOSE r \in h : r.lo <= i /\ i <= r.hi
    IN  (h \ {r})
        \cup (IF r.lo < i THEN {[lo |-> r.lo, hi |-> i - 1]} ELSE {})
        \cup (IF i < r.hi THEN {[lo |-> i + 1, hi |-> r.hi]} ELSE {})

\* The generator as alloc and release calls leave it: new; after
\* MAX_REQUEST_ID - 1 calls of alloc each followed by the release of its id;
\* after as many calls, with id 1 never released; after MAX_REQUEST_ID calls
\* and no release
PoolStates ==
    { [id |-> 0, held |-> {}, hist |-> <<>>, pairs |-> TRUE],
      [id |-> MAX_REQUEST_ID - 1, held |-> {},
       hist |-> Run(MAX_REQUEST_ID - 1), pairs |-> TRUE],
      [id |-> MAX_REQUEST_ID - 1, held |-> {[lo |-> 1, hi |-> 1]},
       hist |-> Run(MAX_REQUEST_ID - 1), pairs |-> FALSE],
      [id |-> MAX_REQUEST_ID, held |-> {[lo |-> 1, hi |-> MAX_REQUEST_ID]},
       hist |-> Run(MAX_REQUEST_ID), pairs |-> FALSE] }

\* The ids whose release is explored
WatchedIds == (1..(MaxAllocs + 1)) \cup {MAX_REQUEST_ID - 1, MAX_REQUEST_ID}

\* What the generator's tasks leave alone
unpooled == <<mode, pc, todo, calls, req, past, batchVars, txlog, flushed,
              serverVars, respVars, result, codecVars, cpc, cid, wlock, wire,
              reqs, sprog, srx, acc, cres>>

\* Faulty variant of inner_alloc: the lock of `ids` is taken with the lock of
\* `id` and kept through the loop and its sleep
IdsLockHeld_in_loop(p) == p \in {"loop", "sleep"}

\* A task whose alloc is at the await point p holds the lock of `ids`: at
\* none, inner_alloc takes it inside a turn of the loop and drops it before
\* the sleep (`drop(ids)`) or with the turn
IdsLockHeld(p) == FALSE

\* alloc is called: timeout(self.timeout, self.inner_alloc()), which starts
\* by awaiting the lock of `id`
AllocCall(t) ==
    /\ ipc[t] = "idle"
    /\ nalloc < MaxAllocs
    /\ nalloc' = nalloc + 1
    /\ ipc' = [ipc EXCEPT ![t] = "wait_id"]
    /\ iret' = [iret EXCEPT ![t] = NoResult]
    /\ pairs' = (pairs /\ held = {} /\ \A u \in Tasks : ipc[u] = "idle")
    /\ UNCHANGED <<unpooled, gen_id, gen_ids, ilock, held, hist>>

\* inner_alloc: self.id.lock().await is granted
AllocLock(t) ==
    /\ ipc[t] = "wait_id"
    /\ ilock = 0
    /\ ilock' = t
    /\ ipc' = [ipc EXCEPT ![t] = "loop"]
    /\ UNCHANGED <<unpooled, gen_id, gen_ids, iret, held, hist, pairs, nalloc>>

\* inner_alloc: one turn of the loop (after the sleep of the turn before):
\* the counter is advanced; if `ids` holds it the task sleeps, the lock of
\* `id` still held, else the id is returned
AllocStep(t) ==
    /\ ipc[t] \in {"loop", "sleep"}
    /\ LET id == Bump(gen_id)
       IN  /\ gen_id' = id
           /\ IF id \in gen_ids
              THEN /\ ipc' = [ipc EXCEPT ![t] = "sleep"]
                   /\ UNCHANGED <<iret, ilock, held, hist>>
              ELSE /\ ipc' = [ipc EXCEPT ![t] = "idle"]
                   /\ ilock' = 0
                   /\ iret' = [iret EXCEPT ![t] =
                                 Allocated(id, Holds(held, id), HoldsAll(held))]
                   /\ held' = HeldAdd(held, id)
                   /\ hist' = HistAdd(hist, id)
    /\ UNCHANGED <<unpooled, gen_ids, pairs, nalloc>>

\* alloc: the timeout elapses while inner_alloc is pending (awaiting the lock
\* of `id` that another task holds, or asleep): inner_alloc is dropped, and
\* the lock with it
AllocTimeout(t) ==
    /\ ipc[t] = "sleep" \/ (ipc[t] = "wait_id" /\ ilock # 0)
    /\ ipc' = [ipc EXCEPT ![t] = "idle"]
    /\ ilock' = IF ilock = t THEN 0 ELSE ilock
    /\ iret' = [iret EXCEPT ![t] = RequestIdGenerateTimeout]
    /\ UNCHANGED <<unpooled, gen_id, gen_ids, held, hist, pairs, nalloc>>

\* release(id), of an id alloc had returned
Release(i) ==
    /\ Holds(held, i)
    /\ \A t \in Tasks : ~IdsLockHeld(ipc[t])
    /\ gen_ids' = gen_ids \ {i}
    /\ held' = HeldDel(held, i)
    /\ UNCHANGED <<unpooled, gen_id, ipc, iret, ilock, hist, pairs, nalloc>>

\* A generator that tasks have shared for a while or not at all
InitIds ==
    /\ InitClient
    /\ mode = "KeepAlive"
    /\ todo = <<SimpleRequest>>
    /\ CallersIdle
    /\ CodecIdle
    /\ ipc = [t \in Tasks |-> "idle"]
    /\ iret = [t \in Tasks |-> NoResult]
    /\ ilock = 0
    /\ nalloc = 0
    /\ gen_ids = {}
    /\ \E s \in PoolStates :
         /\ gen_id = s.id
         /\ held = s.held
         /\ hist = s.hist
         /\ pairs = s.pairs

NextIds ==
    \/ \E t \in Tasks : AllocCall(t)
    \/ \E t \in Tasks : AllocLock(t)
    \/ \E t \in Tasks : AllocStep(t)
    \/ \E t \in Tasks : AllocTimeout(t)
    \/ \E i \in WatchedIds : Release(i)

SpecIds == InitIds /\ [][NextIds]_vars

\* ------------------------------------------------------------------------
\* Properties
\* ------------------------------------------------------------------------

\* C1: when the first response on the channel is Stdout and Stderr records of
\* the request, in any interleaving, closed by an EndRequest record with
\* protocol status RequestComplete, the call that reads it returns Ok (unless
\* the transport fails a read), with stdout the concatenation of the Stdout
\* contents and stderr that of the Stderr contents, in wire order.
C1_DemuxConcatenates ==
    \A n \in 1..Len(sent) :
        ( /\ calls = 1
          /\ flushed
          /\ pc = "returned"
          /\ result # IoError("read")
          /\ ResponseOf(n)
          /\ sent[n].st = RequestComplete )
        => /\ result.kind = "Ok"
           /\ result.stdout.v = SentContent(SubSeq(sent, 1, n - 1), Stdout)
           /\ result.stderr.v = SentContent(SubSeq(sent, 1, n - 1), Stderr)

\* C1 witness: Stdout "a", Stderr "ef", Stdout "bc" and
\* EndRequest(RequestComplete) were read and the call returned both streams.
C1_Witness ==
    /\ calls = 1
    /\ pc = "returned"
    /\ Len(sent) = 4
    /\ ResponseOf(4)
    /\ sent[1].t = Stdout
    /\ sent[2].t = Stderr
    /\ sent[3].t = Stdout
    /\ result = Ok(Some(Lit(<<97, 98, 99>>)), Some(Lit(<<101, 102>>)))

\* C2: an EndRequest record (with its 8-byte body) is a success exactly when
\* its protocol-status byte is 0; for every other byte the call returns the
\* error that carries the decoded status (1 CantMpxConn, 2 Overloaded, any
\* other UnknownRole) and the app_status of the record, never Ok.
C2_EndStatusDecides ==
    \A n \in 1..Len(sent) :
        ( /\ calls = 1
          /\ flushed
          /\ pc = "returned"
          /\ result # IoError("read")
          /\ ResponseOf(n) )
        => IF sent[n].st = 0
           THEN result.kind = "Ok"
           ELSE /\ result.kind = "EndRequest"
                /\ result.app_status = sent[n].app
                /\ result.protocol_status =
                     (CASE sent[n].st = 1 -> CantMpxConn
                        [] sent[n].st = 2 -> Overloaded
                        [] OTHER          -> UnknownRole)

\* C2 witness: an EndRequest record with status byte 255 and app_status 7,
\* after some output, gave the error carrying 7.
C2_Witness ==
    /\ calls = 1
    /\ pc = "returned"
    /\ Len(sent) = 2
    /\ ResponseOf(2)
    /\ sent[2].st = 255
    /\ sent[2].app = 7
    /\ sent[1].content # <<>>
    /\ result.kind = "EndRequest"
    /\ result.app_status = 7

\* C3: the records of a request are written in the order BeginRequest (one,
\* first), then only Params, then only Stdin.
C3_WriteOrder ==
    /\ \A i \in 1..Len(txlog) :
         /\ (i = 1) <=> (txlog[i].h.type = BeginRequest)
         /\ txlog[i].h.type \in {BeginRequest, Params, Stdin}
    /\ \A i, j \in 1..Len(txlog) :
         (i < j /\ txlog[i].h.type = Stdin) => txlog[j].h.type = Stdin
    /\ pc \in {"params", "params_end", "body", "body_end", "flush", "response",
               "content"} => txlog # <<>>

\* C3 witness: a request with Params data and Stdin data is written and
\* flushed.
C3_Witness ==
    /\ flushed
    /\ \E i, j \in 1..Len(txlog) : DataRec(i, Params) /\ DataRec(j, Stdin)

\* C4: the response is awaited, and bytes are taken from the channel, only
\* once every record of the request is written and the flush has completed.
C4_NoReadBeforeFlush ==
    (pc \in {"response", "content"} \/ taken > 0 \/ rdlog # <<>>)
        => (flushed /\ WritesWhole /\ EmptyRec(Len(txlog), Stdin))

\* C4 witness: a response header has been read.
C4_Witness ==
    /\ flushed
    /\ rdlog # <<>>
    /\ taken >= HEADER_LEN

\* C4, the other side: response bytes wait in the channel while the request
\* is not flushed, and none is taken.
C4_WitnessWaiting ==
    /\ ~flushed
    /\ pc = "flush"
    /\ rx # <<>>
    /\ taken = 0

\* C5: once the records of a request are written, there is a zero-length
\* Params record after every non-empty Params record and before every Stdin
\* record.
C5_ParamsTerminator ==
    RecordsWritten =>
        \E i \in 1..Len(txlog) :
            /\ EmptyRec(i, Params)
            /\ txlog[i].wrote = 3
            /\ \A j \in 1..Len(txlog) :
                 /\ DataRec(j, Params) => j < i
                 /\ txlog[j].h.type = Stdin => i < j

\* C5 witness: parameters that take more than one record, then the
\* terminator.
C5_Witness ==
    /\ RecordsWritten
    /\ \E i, j, k \in 1..Len(txlog) :
         /\ i < j /\ j < k
         /\ DataRec(i, Params) /\ DataRec(j, Params) /\ EmptyRec(k, Params)

\* C5 witness: an empty parameter set.
C5_WitnessEmpty ==
    /\ RecordsWritten
    /\ req.params = <<>>
    /\ \A i \in 1..Len(txlog) : ~DataRec(i, Params)

\* C6: the last record written before the flush is a zero-length Stdin
\* record, and no non-empty Stdin record follows a zero-length Stdin record
\* written after body data.
C6_StdinTerminator ==
    /\ RecordsWritten => (EmptyRec(Len(txlog), Stdin) /\ Last(txlog).wrote = 3)
    /\ \A i, j, k \in 1..Len(txlog) :
         (i < j /\ j < k /\ DataRec(i, Stdin) /\ EmptyRec(j, Stdin))
            => ~DataRec(k, Stdin)

\* C6 witness: a body longer than 65535 bytes, written and terminated.
C6_Witness ==
    /\ RecordsWritten
    /\ BLen(req.body) > MAX_LENGTH
    /\ produced = req.body
    /\ EmptyRec(Len(txlog), Stdin)

\* C7: a zero-length body is written as exactly one empty Stdin record.
C7_OneEmptyStdin ==
    (RecordsWritten /\ req.body = <<>>)
        => Cardinality({ i \in 1..Len(txlog) : EmptyRec(i, Stdin) }) = 1

\* C8: every Stdin record carries at most 65535 bytes, as many as its header
\* declares, and the Stdin contents in the order written are the bytes the
\* body reader produced: the whole body, when the reader never stopped short.
C8_BodyChunks ==
    /\ \A i \in 1..Len(txlog) :
         txlog[i].h.type = Stdin =>
            /\ txlog[i].h.content_length <= MAX_LENGTH
            /\ txlog[i].h.content_length = BLen(txlog[i].content)
    /\ WritesWhole => ContentOf(txlog, Stdin) = produced
    /\ (RecordsWritten /\ shorts = 0) => ContentOf(txlog, Stdin) = req.body

\* C8 witness: a body of 131072 bytes went out in three Stdin records.
C8_Witness ==
    /\ RecordsWritten
    /\ BLen(req.body) = 131072
    /\ ContentOf(txlog, Stdin) = req.body
    /\ Cardinality({ i \in 1..Len(txlog) : DataRec(i, Stdin) }) = 3

\* C9: a call returns Ok only after it has read an EndRequest record of the
\* request; with only Stdout and Stderr records read it has not returned Ok.
C9_OkNeedsEndRequest ==
    result.kind = "Ok" =>
        /\ rdlog # <<>>
        /\ Last(rdlog).whole
        /\ Last(rdlog).h.type = EndRequest
        /\ Last(rdlog).h.request_id = REQUEST_ID

\* C9 witness: Stdout and Stderr records have been read, nothing more is in
\* the channel, and the call has not returned.
C9_Witness ==
    /\ pc = "response"
    /\ result = NoResult
    /\ Len(rdlog) = 2
    /\ \A i \in 1..Len(rdlog) : rdlog[i].whole /\ rdlog[i].h.type \in {Stdout, Stderr}
    /\ rx = <<>>
    /\ script = <<>>
    /\ srv = "responding"

\* C10: a record of the request of any type but Stdout, Stderr and EndRequest
\* ends the call with UnknownRequestType carrying that type; its content is
\* not read and nothing more is taken from the channel.
C10_UnexpectedType ==
    /\ ( /\ rdlog # <<>>
         /\ Last(rdlog).h.request_id = REQUEST_ID
         /\ Last(rdlog).h.type \notin {Stdout, Stderr, EndRequest} )
       => /\ pc = "returned"
          /\ result = UnknownRequestType(Last(rdlog).h.type)
          /\ ~Last(rdlog).whole
          /\ taken = TakenFor(rdlog)
    /\ result.kind = "UnknownRequestType"
       => /\ rdlog # <<>>
          /\ Last(rdlog).h.type \notin {Stdout, Stderr, EndRequest}
          /\ calls = 1 =>
               /\ Len(sent) >= Len(rdlog)
               /\ RequestType_from_u8(sent[Len(rdlog)].t) = result.request_type
               /\ sent[Len(rdlog)].t \notin {Stdout, Stderr, EndRequest}

\* C10 witness: a Params record arrived after some output; its content is
\* left in the channel.
C10_Witness ==
    /\ result = UnknownRequestType(Params)
    /\ Len(rdlog) = 2
    /\ rx # <<>>

\* C11: a response header with another request id than the request's ends
\* the call with ResponseNotFound for the expected id, whatever the type of
\* the record; the record's content is not read, and stdout and stderr hold
\* only what the records before it carried. In both modes.
C11_IdMismatch ==
    /\ (rdlog # <<>> /\ Last(rdlog).h.request_id # REQUEST_ID)
       => /\ pc = "returned"
          /\ result = ResponseNotFound(REQUEST_ID)
          /\ ~Last(rdlog).whole
          /\ taken = TakenFor(rdlog)
          /\ stdout = ContentOf(Front(rdlog), Stdout)
          /\ stderr = ContentOf(Front(rdlog), Stderr)
    /\ result.kind = "ResponseNotFound"
       => (rdlog # <<>> /\ Last(rdlog).h.request_id # REQUEST_ID)
    /\ calls = 1 => ReadsWhatWasSent

\* C11 witness: on a one-shot client, after a Stdout record of the request,
\* an EndRequest record of request 2 ended the call with ResponseNotFound.
C11_Witness ==
    /\ mode = "ShortConn"
    /\ result = ResponseNotFound(REQUEST_ID)
    /\ Len(rdlog) = 2
    /\ Last(rdlog).h.type = EndRequest
    /\ Last(rdlog).h.request_id = 2
    /\ stdout # <<>>

\* C11 witness: a Stderr record of request 257 (low byte 1) did the same and
\* left stderr empty.
C11_WitnessLowByte ==
    /\ result = ResponseNotFound(REQUEST_ID)
    /\ Last(rdlog).h.type = Stderr
    /\ Last(rdlog).h.request_id = 257
    /\ stderr = <<>>

\* C12: a call that returns Ok gives stdout as None exactly when the Stdout
\* records it read carried no byte (none, or only zero-length ones) and as
\* Some of all their bytes otherwise, never as Some of the empty sequence; the
\* same for stderr.
C12_NoneWhenNoBytes ==
    result.kind = "Ok" =>
        /\ result.stdout = (IF ContentOf(rdlog, Stdout) = <<>> THEN None
                            ELSE Some(ContentOf(rdlog, Stdout)))
        /\ result.stderr = (IF ContentOf(rdlog, Stderr) = <<>> THEN None
                            ELSE Some(ContentOf(rdlog, Stderr)))
        /\ result.stdout # Some(<<>>)
        /\ result.stderr # Some(<<>>)
        /\ calls = 1 =>
             /\ result.stdout.some <=> SentContent(SubSeq(sent, 1, Len(rdlog)), Stdout) # <<>>
             /\ result.stderr.some <=> SentContent(SubSeq(sent, 1, Len(rdlog)), Stderr) # <<>>

\* C12 witness: a zero-length Stdout record and EndRequest(RequestComplete)
\* gave Ok with neither stdout nor stderr.
C12_Witness ==
    /\ Len(rdlog) = 2
    /\ rdlog[1].whole
    /\ rdlog[1].h.type = Stdout
    /\ rdlog[1].h.content_length = 0
    /\ result = Ok(None, None)

\* C12 witness: only Stderr bytes arrived: stdout is None, stderr is Some.
C12_WitnessStderrOnly ==
    /\ result.kind = "Ok"
    /\ result.stdout = None
    /\ result.stderr = Some(Lit(<<101, 102>>))

\* C13: a call whose response phase fails (a read error or EOF, a record of
\* another id, a record of an unexpected type, a protocol status other than
\* RequestComplete) returns an error value and nothing else: the value has no
\* stdout or stderr, whatever had been accumulated; Ok is returned exactly
\* when the last record read is a whole EndRequest record of the request
\* whose status byte is 0.
C13_NoPartialSuccess ==
    (flushed /\ pc = "returned") =>
        /\ result.kind = "Ok" <=>
             /\ rdlog # <<>>
             /\ Last(rdlog).whole
             /\ Last(rdlog).h.type = EndRequest
             /\ Last(rdlog).h.request_id = REQUEST_ID
             /\ BAt(Last(rdlog).content, 4) = RequestComplete
        /\ result.kind # "Ok" =>
             /\ result.kind \in {"IoError", "ResponseNotFound",
                                 "UnknownRequestType", "EndRequest"}
             /\ DOMAIN result \cap {"stdout", "stderr"} = {}
             /\ result.kind = "IoError" => result.why \in {"read", "eof"}
             /\ result.kind = "ResponseNotFound" => result = ResponseNotFound(REQUEST_ID)
             /\ result.kind = "UnknownRequestType" =>
                  result = UnknownRequestType(Last(rdlog).h.type)

\* C13 witness: Stdout and Stderr bytes had been read when
\* EndRequest(Overloaded) made the call fail.
C13_Witness ==
    /\ pc = "returned"
    /\ result.kind = "EndRequest"
    /\ stdout # <<>>
    /\ stderr # <<>>

\* C13 witness: the same with a read error of the transport.
C13_WitnessIo ==
    /\ pc = "returned"
    /\ result = IoError("read")
    /\ stdout # <<>>
    /\ stderr # <<>>

\* C14: when a write of a request step fails (in BeginRequest, a Params
\* record, a Stdin record: in its header, content or padding) or the flush
\* fails, the call returns that I/O error; the failing record is the last
\* one written (nothing follows it, it is not written again), the request is
\* not flushed after it and no byte of the response is read.
C14_WriteFailureAborts ==
    /\ \A i \in 1..Len(txlog) :
         txlog[i].wrote < 3 =>
            /\ i = Len(txlog)
            /\ pc = "returned"
            /\ result = IoError("write")
            /\ ~flushed
            /\ taken = 0
            /\ rdlog = <<>>
    /\ result = IoError("write") => (txlog # <<>> /\ Last(txlog).wrote < 3)
    /\ result = IoError("flush") =>
            /\ pc = "returned"
            /\ ~flushed
            /\ taken = 0
            /\ rdlog = <<>>
            /\ \A i \in 1..Len(txlog) : txlog[i].wrote = 3

\* C14 witness: the content of a Stdin record failed to be written after its
\* header, while response bytes waited in the channel.
C14_Witness ==
    /\ result = IoError("write")
    /\ Last(txlog).h.type = Stdin
    /\ Last(txlog).content # <<>>
    /\ Last(txlog).wrote = 1
    /\ rx # <<>>
    /\ taken = 0

\* C14 witness: the flush failed.
C14_WitnessFlush ==
    /\ result = IoError("flush")
    /\ EmptyRec(Len(txlog), Stdin)
    /\ rx # <<>>

\* C14 witness: the BeginRequest record failed.
C14_WitnessBegin ==
    /\ result = IoError("write")
    /\ Len(txlog) = 1
    /\ txlog[1].wrote = 0

\* The channel ended at the i-th thing the server sent (a record cut short,
\* or the close itself) after nothing but whole Stdout / Stderr records of
\* the request
EndsAt(i) ==
    /\ i \in 1..Len(sent)
    /\ sent[i].cut > 0 \/ sent[i].close
    /\ \A j \in 1..(i - 1) : GoodData(sent[j])

\* C15: when the channel ends before an EndRequest record has been read
\* completely (in a header, in a record's content, or in its padding, that
\* of the EndRequest record included) the call returns an I/O error, with the
\* channel drained and nothing read afterwards; a call that returns Ok has
\* read every record whole, padding included.
C15_EofIsError ==
    /\ (calls = 1 /\ pc = "returned" /\ flushed /\ \E i \in 1..Len(sent) : EndsAt(i))
       => result.kind = "IoError"
    /\ (calls = 1 /\ result.kind = "Ok") =>
          /\ \A i \in 1..Len(rdlog) :
               rdlog[i].whole /\ sent[i].cut = 0 /\ ~sent[i].close
          /\ taken = BLen(SrvStream(SubSeq(sent, 1, Len(rdlog))))
    /\ result = IoError("eof") =>
          /\ pc = "returned"
          /\ rxClosed
          /\ rx = <<>>
          /\ rdlog # <<>> => Last(rdlog).h.type # EndRequest \/ ~Last(rdlog).whole

\* C15 witness: EOF in the padding of the EndRequest record, after its whole
\* body had arrived.
C15_Witness ==
    /\ result = IoError("eof")
    /\ rdlog # <<>>
    /\ Last(rdlog).h.type = EndRequest
    /\ Last(rdlog).h.padding_length = 4
    /\ ~Last(rdlog).whole
    /\ Len(sent) >= 2
    /\ sent[Len(sent) - 1].cut = 2

\* C15 witness: EOF in the middle of a header, after a whole Stdout record.
C15_WitnessHeader ==
    /\ result = IoError("eof")
    /\ Len(rdlog) = 1
    /\ rdlog[1].whole
    /\ Len(sent) = 3
    /\ sent[2].cut = 12

\* C15 witness: EOF in the content of a record.
C15_WitnessContent ==
    /\ result = IoError("eof")
    /\ rdlog # <<>>
    /\ ~Last(rdlog).whole
    /\ Last(rdlog).h.type = Stdout
    /\ Last(sent[Len(sent) - 1].content) = [v |-> 97, n |-> 1]
    /\ sent[Len(sent) - 1].cut = 8

\* C16: the first record of every request, and no other, is a BeginRequest
\* record with content_length 8 and padding_length 0 whose body is the bytes
\* 0, 1 (role Responder, big-endian), the flags byte (1 on a keep-alive
\* client, 0 on a short-connection one) and five zero bytes; its header on
\* the wire is 1, 1, 0, 1, 0, 8, 0, 0.
C16_BeginRequestBody ==
    txlog # <<>> =>
        /\ txlog[1].h.type = BeginRequest
        /\ txlog[1].h.request_id = REQUEST_ID
        /\ txlog[1].h.content_length = 8
        /\ txlog[1].h.padding_length = 0
        /\ HeaderBytes(txlog[1].h) = Lit(<<1, 1, 0, 1, 0, 8, 0, 0>>)
        /\ BLen(txlog[1].content) = 8
        /\ txlog[1].content =
             Lit(<<0, 1, IF mode = "KeepAlive" THEN 1 ELSE 0, 0, 0, 0, 0, 0>>)
        /\ \A i \in 2..Len(txlog) : txlog[i].h.type # BeginRequest

\* C16 witness: a keep-alive client wrote its BeginRequest record whole,
\* flags byte 1.
C16_Witness ==
    /\ mode = "KeepAlive"
    /\ txlog # <<>>
    /\ txlog[1].wrote = 3
    /\ BAt(txlog[1].content, 2) = 1

\* C16 witness: a short-connection client, flags byte 0.
C16_WitnessShort ==
    /\ mode = "ShortConn"
    /\ flushed
    /\ BAt(txlog[1].content, 2) = 0

\* The records the server sent that the current call has read, when every
\* earlier call returned Ok
ReadNow == SubSeq(sent, past.nread + 1, past.nread + Len(rdlog))

\* The EndRequest records among the first n the server sent
EndsIn(n) == { i \in 1..n : sent[i].t = EndRequest }

\* C17: a call on a keep-alive client that returns Ok has taken from the
\* channel exactly the bytes of the records it read, through the padding of
\* the EndRequest record, and what the server sent after them is still in
\* the channel; so when the calls before it returned Ok too, the k-th call
\* has read the k-th response the server sent and returns its Stdout and
\* Stderr bytes.
C17_KeepAliveConsumption ==
    ( /\ mode = "KeepAlive"
      /\ result.kind = "Ok"
      /\ past.ok )
    => /\ past.nread + Len(rdlog) <= Len(sent)
       /\ taken = BLen(SrvStream(ReadNow))
       /\ rx = BDrop(SrvStream(sent), past.taken + taken)
       /\ rx = SrvStream(SubSeq(sent, past.nread + Len(rdlog) + 1, Len(sent)))
       /\ Last(ReadNow).t = EndRequest
       /\ Cardinality(EndsIn(past.nread + Len(rdlog))) = calls
       /\ result.stdout.v = SentContent(ReadNow, Stdout)
       /\ result.stderr.v = SentContent(ReadNow, Stderr)

\* C17 witness: the second call of a keep-alive client returned the Stdout
\* byte of the second response; the first response ended in an EndRequest
\* record with 5 bytes of padding.
C17_Witness ==
    /\ mode = "KeepAlive"
    /\ calls = 2
    /\ past.ok
    /\ past.nread > 0
    /\ sent[past.nread].pad = 5
    /\ result = Ok(Some(Lit(<<122>>)), None)
    /\ rx = <<>>

\* C17 witness: the first call returned Ok and left the first bytes of the
\* next response in the channel.
C17_WitnessRest ==
    /\ mode = "KeepAlive"
    /\ calls = 1
    /\ result.kind = "Ok"
    /\ Last(rdlog).h.padding_length = 5
    /\ rx # <<>>

C19_WitnessAfterError ==
    /\ mode = "KeepAlive"
    /\ calls = 2
    /\ ~past.ok
    /\ srv = "listening"
    /\ pc = "flush"

\* C20: on a keep-alive client, records of other request ids that arrive
\* before the EndRequest record of the request do not make the call return:
\* after reading the header of such a record the call is still waiting.
C20_OtherIdsKeepWaiting ==
    ( /\ mode = "KeepAlive"
      /\ rdlog # <<>>
      /\ Last(rdlog).h.request_id # REQUEST_ID )
    => pc \in {"response", "content"}

C18_WitnessInterleaved ==
    /\ \A c \in Callers : cpc[c] = "response"
    /\ Len(srx) >= 4
    /\ srx[1].id # srx[2].id
    /\ srx[3].id = srx[1].id
    /\ srx[4].id = srx[2].id

\* C18 witness: a call is reading while the other call still holds the write
\* side.
C18_WitnessOverlap ==
    /\ \E c \in Callers : cpc[c] = "response" /\ wlock \notin {0, c}
    /\ srx # <<>>

\* C21: on a keep-alive client every request takes its request id from the
\* pooled allocator before its first record is written and puts that id on
\* all its records: whenever a call of a keep-alive client has written a
\* record, the allocator has handed out an id (its counter has left 0) and
\* every record of the call carries the id the allocator handed out last.
C21_IdFromPool ==
    is_keep_alive(mode) /\ txlog # <<>> =>
        /\ gen_id # 0
        /\ \A i \in 1..Len(txlog) : txlog[i].h.request_id = gen_id

\* The BeginRequest records in a log
Begins(log) == { i \in 1..Len(log) : log[i].h.type = BeginRequest }

\* C25: a client made by Client::new performs one request / response cycle:
\* at most one call is ever started on it, so that the records of that call
\* are all the records it ever writes, at most one BeginRequest record is
\* among them, and no call has come before the current one.
C25_OneShotOnce ==
    ~is_keep_alive(mode) =>
        /\ calls <= 1
        /\ past = NoCalls
        /\ Cardinality(Begins(txlog)) <= 1

\* C25 witness: the only call of a one-shot client has returned Ok, its
\* BeginRequest record written, while the application has another request
\* to make.
C25_Witness ==
    /\ ~is_keep_alive(mode)
    /\ pc = "returned"
    /\ result.kind = "Ok"
    /\ calls = 1
    /\ Cardinality(Begins(txlog)) = 1
    /\ todo # <<>>

\* C25 witness: the same after a call that failed in its first write.
C25_WitnessAfterError ==
    /\ ~is_keep_alive(mode)
    /\ pc = "returned"
    /\ result = IoError("write")
    /\ Len(txlog) = 1
    /\ todo # <<>>

\* C30: for every EndRequest header of the request that is received, whatever
\* content length it declares, a body of exactly 8 bytes is read, app_status
\* is decoded from its bytes 0..3 and the protocol status from its byte 4,
\* and the call ends in a result or an error value: once a call has ended
\* after an EndRequest header, it has not panicked, and unless the transport
\* failed the body it read is 8 bytes long and its result is the one those
\* bytes encode.
C30_EndBodyFixed ==
    /\ pc \in {"returned", "panicked"}
    /\ rdlog # <<>>
    /\ Last(rdlog).h.type = EndRequest
    /\ Last(rdlog).h.request_id = REQUEST_ID
    => /\ result.kind # "panic"
       /\ result.kind # "IoError" =>
            /\ Last(rdlog).whole
            /\ BLen(Last(rdlog).content) = 8
            /\ result = EndResult(Last(rdlog).content, stdout, stderr)

\* C26: every header Header::new builds, for a content of 0..65535 bytes, has
\* a padding_length in 0..7 equal to (-content_length) mod 8, so that
\* content_length + padding_length is a multiple of 8 (content_length being
\* the length of the content).
C26_PaddingInvariant ==
    cstep \in {"built", "written", "header", "read"} /\ ~cin.peer =>
        /\ chdr.content_length = BLen(cin.content)
        /\ chdr.padding_length \in 0..7
        /\ chdr.padding_length = (8 - (chdr.content_length % 8)) % 8
        /\ (chdr.content_length + chdr.padding_length) % 8 = 0

\* C26 witness: a header for 65535 bytes of content, padding_length 1.
C26_Witness ==
    /\ cstep = "built"
    /\ BLen(cin.content) = MAX_LENGTH
    /\ chdr.padding_length = 1

\* C26 witness: a header for 32768 bytes, built where the negation wraps.
C26_WitnessWrap ==
    /\ cstep = "built"
    /\ BLen(cin.content) = 32768
    /\ chdr.padding_length = 0

\* C26 witness: a header for 9 bytes of content, padding_length 7.
C26_WitnessNine ==
    /\ cstep = "built"
    /\ BLen(cin.content) = 9
    /\ chdr.padding_length = 7

\* What was read is what was given, and the reader is on the first byte
\* after the padding
RoundTrips ==
    /\ cgot.h.type = cin.type
    /\ cgot.h.request_id = cin.request_id
    /\ cgot.h.content_length = BLen(cin.content)
    /\ cgot.content = cin.content
    /\ cchan = cin.next

\* C27: for every record type, request id and content of 0..65535 bytes,
\* Header::new and write_to_stream followed by new_from_stream and
\* read_content_from_stream give back the same type, request id, content
\* length and content and leave the reader on the first byte after the
\* padding: building the header never ends in a panic, and a record that has
\* been read back is the record that was given.
C27_RoundTrip ==
    /\ cstep # "panicked"
    /\ cstep = "read" /\ ~cin.peer => RoundTrips

\* The round trip of the records that Header::new builds
RoundTripWhenBuilt == cstep = "read" /\ ~cin.peer => RoundTrips

\* C28: every record written is 8 header bytes in the order version (1),
\* type code, request id (big-endian u16), content length (big-endian u16),
\* padding length, reserved (0), then the content bytes, then padding_length
\* bytes that are all zero (and then whatever is written next).
C28_RecordLayout ==
    cstep = "written" /\ ~cin.peer =>
        LET len == BLen(cin.content)
            pad == chdr.padding_length
        IN  /\ BAt(cchan, 0) = 1
            /\ BAt(cchan, 1) = cin.type
            /\ BAt(cchan, 2) = cin.request_id \div 256
            /\ BAt(cchan, 3) = cin.request_id % 256
            /\ BAt(cchan, 4) = len \div 256
            /\ BAt(cchan, 5) = len % 256
            /\ BAt(cchan, 6) = pad
            /\ BAt(cchan, 7) = 0
            /\ BTake(BDrop(cchan, 8), len) = cin.content
            /\ BTake(BDrop(cchan, 8 + len), pad) = Rep(0, pad)
            /\ BDrop(cchan, 8 + len + pad) = cin.next

\* C28 witness: a Stderr record of request 258 (bytes 1 and 2) with 255
\* bytes of content and 1 byte of padding is on the channel, more behind it.
C28_Witness ==
    /\ cstep = "written"
    /\ ~cin.peer
    /\ cin.type = Stderr
    /\ cin.request_id = 258
    /\ BLen(cin.content) = 255
    /\ chdr.padding_length = 1
    /\ cin.next # <<>>

\* C28 witness: a record of 65535 bytes of content that are not all alike.
C28_WitnessLong ==
    /\ cstep = "written"
    /\ ~cin.peer
    /\ BLen(cin.content) = MAX_LENGTH
    /\ Len(cin.content) = 3
    /\ BLen(cchan) = 8 + 65536 + BLen(cin.next)

\* The record type each type byte names
Named(b) ==
    CASE b = 1  -> BeginRequest
      [] b = 2  -> AbortRequest
      [] b = 3  -> EndRequest
      [] b = 4  -> Params
      [] b = 5  -> Stdin
      [] b = 6  -> Stdout
      [] b = 7  -> Stderr
      [] b = 8  -> Data
      [] b = 9  -> GetValues
      [] b = 10 -> GetValuesResult
      [] OTHER  -> UnknownType

\* C29: decoding a header never fails on its type byte: the bytes 1..10
\* decode to the record types they name and every other byte (0, 11,
\* 12..255) to UnknownType; and the byte written for a record type decodes to
\* that type. A header is decoded as soon as its 8 bytes are there, whatever
\* the type byte.
C29_TypeDecoding ==
    /\ cstep \in {"header", "read"} =>
          cgot.h.type = (IF cin.peer THEN Named(cin.type) ELSE cin.type)
    /\ cstep = "written" /\ BLen(cchan) >= HEADER_LEN =>
          Header_new_from_buf(BTake(cchan, HEADER_LEN)).type \in RecordTypes

\* C29 witness: the type byte 200 from a peer has been decoded to
\* UnknownType, and the record's content read after it.
C29_Witness ==
    /\ cstep = "read"
    /\ cin.peer
    /\ cin.type = 200
    /\ cgot.h.type = UnknownType
    /\ cgot.content = Lit(<<1, 2, 3>>)

\* C29 witness: the type byte 0.
C29_WitnessZero ==
    /\ cstep = "header"
    /\ cin.peer
    /\ cin.type = 0
    /\ cgot.h.type = UnknownType

\* C29 witness: a GetValuesResult record written by Header::write_to_stream
\* decodes to GetValuesResult.
C29_WitnessEncoded ==
    /\ cstep = "header"
    /\ ~cin.peer
    /\ cin.type = GetValuesResult
    /\ cgot.h.type = GetValuesResult

\* C22: after any sequence of alloc and release calls, the counter having
\* wrapped past MAX_REQUEST_ID or not, alloc never returns an id that an
\* earlier alloc returned and that has not been released since.
C22_NoOutstandingDuplicate ==
    \A t \in Tasks : iret[t].kind = "Id" => ~iret[t].out

\* C23: when every id of the pool is outstanding, alloc does not return an
\* id (it ends with RequestIdGenerateTimeout unless an id is released
\* first): no alloc has returned an id at a moment when every id of the pool
\* was outstanding.
C23_ExhaustedPoolGivesNoId ==
    \A t \in Tasks : iret[t].kind = "Id" => ~iret[t].full

\* C24: the ids returned by N alloc calls made one after the other, each
\* followed by the release of its id before the next, are all distinct as
\* long as N is at most MAX_REQUEST_ID.
C24_SequentialDistinct ==
    pairs /\ HistCount(hist) <= MAX_REQUEST_ID => HistDistinct(hist)

\* C24 witness: MAX_REQUEST_ID calls of alloc, each id released before the
\* next call, have returned 1..MAX_REQUEST_ID, the last of them just now.
C24_Witness ==
    /\ pairs
    /\ nalloc >= 1
    /\ hist = Run(MAX_REQUEST_ID)
    /\ \E t \in Tasks : iret[t] = Allocated(MAX_REQUEST_ID, FALSE, FALSE)
    /\ held = {}

\* C24 witness: the call after those has returned id 1 again, which had been
\* released.
C24_WitnessReuse ==
    /\ pairs
    /\ HistCount(hist) = MAX_REQUEST_ID + 1
    /\ \E t \in Tasks : iret[t] = Allocated(1, FALSE, FALSE)
    /\ ~HistDistinct(hist)

\* C24 witness: on a new generator three calls have returned 1, 2 and 3.
C24_WitnessFresh ==
    /\ pairs
    /\ hist = Run(3)
    /\ held = {}

\* C40: the padding computation of Header::new stays within 16-bit signed
\* arithmetic for every content_length in 0..65535, 32768 included, so that
\* building a header never overflows for any chunk write_to_stream_batches
\* can produce: no call panics while it writes its request.
C40_PaddingNeverOverflows == ~(pc = "panicked" /\ ~flushed)

\* C34: every id alloc returns is in 1..MAX_REQUEST_ID (65534), never 0, and
\* the counter never exceeds MAX_REQUEST_ID (so it never overflows u16),
\* after any number of allocations.
C34_IdsInRange ==
    /\ gen_id \in 0..MAX_REQUEST_ID
    /\ \A t \in Tasks : iret[t].kind = "Id" => iret[t].id \in 1..MAX_REQUEST_ID
    /\ \A i \in 1..Len(hist) : hist[i].lo >= 1 /\ hist[i].hi <= MAX_REQUEST_ID

\* C34 witness: after an alloc had returned MAX_REQUEST_ID the next one has
\* returned 1, the counter having wrapped.
C34_Witness ==
    /\ nalloc >= 2
    /\ Len(hist) = 2
    /\ hist[1].hi = MAX_REQUEST_ID
    /\ gen_id = 1
    /\ \E t \in Tasks : iret[t].kind = "Id" /\ iret[t].id = 1

\* C34 witness: the first alloc of a new generator has returned 1.
C34_WitnessFirst ==
    /\ hist = Run(1)
    /\ gen_id = 1
    /\ \E t \in Tasks : iret[t].kind = "Id" /\ iret[t].id = 1

C38_WitnessTimeout ==
    /\ iret[2] = RequestIdGenerateTimeout
    /\ iret[1].kind = "Id"
    /\ ilock = 0
    /\ nalloc = 2

\* The first call of write_to_stream_batches of handle_request_params or of
\* handle_request_body has returned Ok(()), and the second call has written
\* nothing yet
FirstBatchDone == pc \in {"params_end", "body_end"} /\ ~had_written

\* The records of the type of the batch calls the client is at
BatchRecs == { i \in 1..Len(txlog) : txlog[i].h.type = BatchType(pc) }

\* C31 as stated: a single call of write_to_stream_batches ends what it
\* writes with a zero-length record of the type and the request id it was
\* given, whether its source gave bytes or not.
C31_SingleCallTerminates ==
    FirstBatchDone =>
        /\ BatchRecs # {}
        /\ EmptyRec(Len(txlog), BatchType(pc))
        /\ Last(txlog).h.request_id = REQUEST_ID

\* C31, amended: a single call of write_to_stream_batches writes at least
\* one record, all of the type and the request id it was given; it writes a
\* zero-length record only for a first read of zero bytes (exactly one
\* then), so after a source that gave bytes on its first read every record
\* it wrote carries content and none is a terminator.
C31_SingleCallRecords ==
    FirstBatchDone =>
        /\ BatchRecs # {}
        /\ \A i \in BatchRecs :
              /\ txlog[i].h.request_id = REQUEST_ID
              /\ txlog[i].wrote = 3
              /\ txlog[i].h.content_length = BLen(txlog[i].content)
              /\ txlog[i].content = <<>> => \A j \in BatchRecs : j >= i

\* C31 witness: the call over a body of 65536 bytes has returned after two
\* records with content, the last of one byte, and no zero-length record.
C31_Witness ==
    /\ pc = "body_end"
    /\ ~had_written
    /\ Cardinality(BatchRecs) = 2
    /\ Last(txlog).h.type = Stdin
    /\ Last(txlog).h.content_length = 1
    /\ produced = req.body

\* C31 witness: the call over an empty body has returned after exactly one
\* zero-length Stdin record.
C31_WitnessEmpty ==
    /\ pc = "body_end"
    /\ ~had_written
    /\ req.body = <<>>
    /\ Cardinality(BatchRecs) = 1
    /\ EmptyRec(Len(txlog), Stdin)

\* The first call of write_to_stream_batches of handle_request_params has
\* returned: the Params records with content are all written
ParamsWritten == pc = "params_end" /\ ~had_written

\* A length as the protocol puts it on the wire: one byte for 0..127, else
\* four bytes, big-endian, of the length with bit 31 set
WireLength(L) ==
    IF L <= 127 THEN Rep(L, 1)
    ELSE BCat(Rep(128 + (L \div 16777216), 1),
              BCat(Rep((L \div 65536) % 256, 1), U16BE(L % 65536)))

\* The number of bytes of a length on the wire
WireLengthSize(L) == IF L <= 127 THEN 1 ELSE 4

RECURSIVE WireParams(_)
\* Pairs on the wire: name length, value length, name bytes, value bytes
WireParams(ps) ==
    IF ps = <<>> THEN <<>>
    ELSE BCat(WireLength(BLen(ps[1].name)),
         BCat(WireLength(BLen(ps[1].value)),
         BCat(ps[1].name, BCat(ps[1].value, WireParams(Tail(ps))))))

RECURSIVE WireParamsSize(_)
WireParamsSize(ps) ==
    IF ps = <<>> THEN 0
    ELSE WireLengthSize(BLen(ps[1].name)) + WireLengthSize(BLen(ps[1].value))
         + BLen(ps[1].name) + BLen(ps[1].value) + WireParamsSize(Tail(ps))

\* C32: the content of the Params records the client writes is, pair after
\* pair, the name length, the value length, the name bytes and the value
\* bytes, a length L being one byte equal to L when L < 128 and the four
\* big-endian bytes of L | 0x80000000 when L >= 128.
C32_ParamLayout ==
    ParamsWritten =>
        /\ ContentOf(txlog, Params) = WireParams(req.params)
        /\ BLen(ContentOf(txlog, Params)) = WireParamsSize(req.params)

\* C32 witness: a name of 128 bytes is written with the four bytes
\* 128, 0, 0, 128 and a value of 127 bytes with the one byte 127.
C32_Witness ==
    /\ ParamsWritten
    /\ req.params = <<PairC>>
    /\ BTake(ContentOf(txlog, Params), 5) = Lit(<<128, 0, 0, 128, 127>>)
    /\ BLen(ContentOf(txlog, Params)) = 4 + 1 + 128 + 127

\* C32 witness: {"A": "1"} then a value of 130 bytes: the length 130 is
\* written as 128, 0, 0, 130.
C32_WitnessScenario ==
    /\ ParamsWritten
    /\ req.params = <<PairA, PairB>>
    /\ BTake(ContentOf(txlog, Params), 10)
         = Lit(<<1, 1, 65, 49, 1, 128, 0, 0, 130, 66>>)

\* C32 witness: a name of 127 bytes is written with one byte and a value of
\* 65536 bytes with 128, 1, 0, 0.
C32_WitnessLong ==
    /\ ParamsWritten
    /\ req.params = <<PairK>>
    /\ BTake(ContentOf(txlog, Params), 5) = Lit(<<127, 128, 1, 0, 0>>)

\* The bytes do not hold whole name/value pairs
Malformed == <<[malformed |-> TRUE]>>

\* The protocol's reading of a length at the front of b: the first byte when
\* its high bit is clear, else four bytes, big-endian, with bit 31 cleared;
\* `used` is the number of bytes of the length, 0 when they are not all there
DecodeLength(b) ==
    IF b = <<>> THEN [len |-> 0, used |-> 0]
    ELSE IF BAt(b, 0) < 128 THEN [len |-> BAt(b, 0), used |-> 1]
    ELSE IF BLen(b) < 4 THEN [len |-> 0, used |-> 0]
    ELSE [len |-> (BAt(b, 0) - 128) * 16777216 + BAt(b, 1) * 65536
                  + BAt(b, 2) * 256 + BAt(b, 3),
          used |-> 4]

RECURSIVE DecodePairs(_)
\* The protocol's name/value decoder: the pairs of a Params stream, in the
\* order of the stream
DecodePairs(b) ==
    IF b = <<>> THEN <<>>
    ELSE LET n  == DecodeLength(b)
             b1 == BDrop(b, n.used)
             v  == DecodeLength(b1)
             b2 == BDrop(b1, v.used)
         IN  IF n.used = 0 \/ v.used = 0 \/ BLen(b2) < n.len + v.len
             THEN Malformed
             ELSE <<Pair(BTake(b2, n.len), BTake(BDrop(b2, n.len), v.len))>>
                  \o DecodePairs(BDrop(b2, n.len + v.len))

\* The elements of a sequence
Range(q) == { q[i] : i \in 1..Len(q) }

\* C33: decoding the content of the Params records the client wrote with
\* the protocol's name/value decoder gives the pairs of the request, each
\* once, none more and none less.
C33_ParamRoundTrip ==
    ParamsWritten =>
        LET got == DecodePairs(ContentOf(txlog, Params))
        IN  /\ Len(got) = Len(req.params)
            /\ Range(got) = Range(req.params)

\* C33 witness: two pairs, one with lengths below 128 and one with a value
\* of 130 bytes, are decoded from what was written, in the order written.
C33_Witness ==
    /\ ParamsWritten
    /\ req.params = <<PairB, PairA>>
    /\ DecodePairs(ContentOf(txlog, Params)) = <<PairB, PairA>>

\* C33 witness: the pair with a name of 128 bytes and a value of 127 bytes
\* is decoded from what was written.
C33_WitnessBoundary ==
    /\ ParamsWritten
    /\ DecodePairs(ContentOf(txlog, Params)) = <<PairC>>

\* C33 witness: the pair whose content takes more than one record is
\* decoded from the records' contents put together.
C33_WitnessRecords ==
    /\ ParamsWritten
    /\ Len(txlog) = 3
    /\ DecodePairs(ContentOf(txlog, Params)) = <<PairK>>

\* C35: after a record that was written in part (a write of its content or
\* of its padding failed or was abandoned), no later call writes a
\* BeginRequest record onto the channel.
C35_NoRequestAfterCutRecord ==
    ~( /\ past.cut
       /\ txlog # <<>>
       /\ txlog[1].h.type = BeginRequest
       /\ txlog[1].wrote = 3 )

\* The errors of the response that are not I/O errors
ResponseErrors == {"ResponseNotFound", "UnknownRequestType", "EndRequest"}

\* C36: when a call on a keep-alive client returns Ok or an error that is
\* not an I/O error, every record whose header it read has had its content
\* and padding read too: the channel is at the first byte of a header.
C36_ReturnsAtRecordBoundary ==
    ( /\ mode = "KeepAlive"
      /\ pc = "returned"
      /\ result.kind \in {"Ok"} \cup ResponseErrors )
    => \A i \in 1..Len(rdlog) :
          \/ rdlog[i].whole
          \/ rdlog[i].h.content_length + rdlog[i].h.padding_length = 0

\* C39: every record the client has written in full (BeginRequest, Params,
\* Stdin) has as many content bytes as its header's content_length says and
\* as many padding bytes as its padding_length says, so it takes
\* 8 + content_length + padding_length bytes of the channel; and the content
\* given to Header::new, for the records written in part too, is never
\* longer than 65535 bytes.
C39_LengthsMatchHeader ==
    \A i \in 1..Len(txlog) :
        /\ txlog[i].h.type \in {BeginRequest, Params, Stdin}
        /\ BLen(txlog[i].content) <= MAX_LENGTH
        /\ txlog[i].wrote = 3 =>
             LET bytes == RecordBytes(txlog[i].h, txlog[i].content)
             IN  /\ txlog[i].h.content_length = BLen(txlog[i].content)
                 /\ BLen(bytes) = HEADER_LEN + txlog[i].h.content_length
                                  + txlog[i].h.padding_length
                 /\ BDrop(bytes, HEADER_LEN + txlog[i].h.content_length)
                      = Rep(0, txlog[i].h.padding_length)

\* C39 witness: a body of 65536 bytes is written as a Stdin record of 65535
\* bytes with one byte of padding and a record of one byte with 7.
C39_Witness ==
    /\ RecordsWritten
    /\ \E i \in 1..(Len(txlog) - 1) :
         /\ txlog[i].h.type = Stdin
         /\ txlog[i].h.content_length = MAX_LENGTH
         /\ txlog[i].h.padding_length = 1
         /\ BLen(RecordBytes(txlog[i].h, txlog[i].content)) = 65544
         /\ txlog[i + 1].h.content_length = 1
         /\ txlog[i + 1].h.padding_length = 7

\* C39 witness: the BeginRequest record, 8 bytes of content and none of
\* padding, has been written.
C39_WitnessBegin ==
    /\ pc = "params"
    /\ Len(txlog) = 1
    /\ txlog[1].wrote = 3
    /\ BLen(RecordBytes(txlog[1].h, txlog[1].content)) = 16

\* The call is in the loop of handle_response
InLoop == pc \in {"response", "content"}

\* The server has sent, after the records the calls before and this one
\* have read the header of, a whole EndRequest record of the request's id
EndDelivered ==
    /\ past.ok
    /\ \E i \in (past.nread + Len(rdlog) + 1)..Len(sent) :
         /\ sent[i].t = EndRequest
         /\ sent[i].id = REQUEST_ID
         /\ sent[i].cut = 0

\* A step that leaves the loop of handle_response leaves it by an I/O error,
\* by a record of another id or of an unexpected type (after its header), or
\* by an EndRequest record (after its content: Ok, the error of its protocol
\* status, or the panic of a body shorter than 8 bytes)
LoopExit ==
    (InLoop /\ ~InLoop') =>
        \/ pc' = "returned" /\ result'.kind = "IoError"
        \/ /\ pc' = "returned"
           /\ pc = "response"
           /\ result'.kind \in {"ResponseNotFound", "UnknownRequestType"}
        \/ /\ pc' = "returned"
           /\ pc = "content"
           /\ header.type = EndRequest
           /\ result'.kind \in {"Ok", "EndRequest"}
        \/ /\ pc' = "panicked"
           /\ pc = "content"
           /\ header.type = EndRequest
           /\ header.content_length < 8

C37_WitnessClosed ==
    /\ pc = "returned"
    /\ rxClosed
    /\ \A i \in 1..Len(sent) : sent[i].t # EndRequest
    /\ result = IoError("eof")

====
